---- MODULE Spec2Model ----
(***************************************************************************)
(* Valuation engine of vc_audit_tool: request parsing, methodology         *)
(* dispatch, the two mock providers and the two methodologies, with the    *)
(* decimal arithmetic the methodologies rely on.                           *)
(*                                                                         *)
(* Text (str) is a sequence of code points, so that parsing, formatting,   *)
(* upper-casing and sorting are computed and not assumed.  An unbounded    *)
(* integer is a big-endian sequence of decimal digits without leading      *)
(* zeros (<<0>> is zero), because decimal coefficients have up to 28       *)
(* digits.                                                                 *)
(***************************************************************************)
EXTENDS Integers, Sequences, FiniteSets, TLC

(***************************************************************************)
(* Unbounded naturals (int, and the coefficient of a Decimal)              *)
(***************************************************************************)
Max(a, b) == IF a >= b THEN a ELSE b

Min(a, b) == IF a <= b THEN a ELSE b

\* F applied to the value v, computed once
With(v, F(_)) == F(v)

Zeros(k) == [i \in 1..k |-> 0]

\* Pow10[k + 1] = 10^k
Pow10 == <<1, 10, 100, 1000, 10000, 100000, 1000000, 10000000, 100000000>>

NStrip(a) ==
    LET nz == {i \in 1..Len(a) : a[i] # 0}
    IN  IF nz = {} THEN <<0>>
        ELSE SubSeq(a, CHOOSE i \in nz : \A j \in nz : i <= j, Len(a))

NIsZero(a) == a = <<0>>

\* -1, 0 or 1 as a < b, a = b, a > b
NCmp(a, b) ==
    IF Len(a) # Len(b) THEN (IF Len(a) < Len(b) THEN -1 ELSE 1)
    ELSE LET diff == {i \in 1..Len(a) : a[i] # b[i]}
         IN  IF diff = {} THEN 0
             ELSE LET i == CHOOSE j \in diff : \A k \in diff : j <= k
                  IN  IF a[i] < b[i] THEN -1 ELSE 1

RECURSIVE NFromInt(_)
NFromInt(n) == IF n < 10 THEN <<n>> ELSE Append(NFromInt(n \div 10), n % 10)

RECURSIVE NToIntRec(_, _, _)
NToIntRec(a, i, acc) == IF i > Len(a) THEN acc ELSE NToIntRec(a, i + 1, acc * 10 + a[i])

\* the machine integer of a short digit sequence
NToInt(a) == NToIntRec(a, 1, 0)

\* Arithmetic works on limbs of w digits, least significant limb first, so
\* that every intermediate value is a machine integer.
Limbs(a, w) ==
    [k \in 1..((Len(a) + w - 1) \div w) |->
        NToInt(SubSeq(a, Max(1, Len(a) - w * k + 1), Len(a) - w * (k - 1)))] \o <<>>

Unlimbs(ls, w) ==
    NStrip([p \in 1..(w * Len(ls)) |->
        (ls[Len(ls) - ((p - 1) \div w)] \div Pow10[w - ((p - 1) % w)]) % 10] \o <<>>)

LimbAt(ls, k) == IF k <= Len(ls) THEN ls[k] ELSE 0

RECURSIVE CarryRec(_, _, _, _, _)
\* columns (each >= 0) to limbs below base
CarryRec(cols, base, k, carry, acc) ==
    IF k > Len(cols) THEN (IF carry = 0 THEN acc ELSE Append(acc, carry))
    ELSE LET s == cols[k] + carry
         IN  IF s < base THEN CarryRec(cols, base, k + 1, 0, Append(acc, s))
             ELSE CarryRec(cols, base, k + 1, s \div base, Append(acc, s % base))

NAdd(a, b) ==
    LET la == Limbs(a, 8)
        lb == Limbs(b, 8)
        cols == [k \in 1..Max(Len(la), Len(lb)) |-> LimbAt(la, k) + LimbAt(lb, k)]
    IN  Unlimbs(CarryRec(cols, Pow10[9], 1, 0, <<>>), 8)

RECURSIVE BorrowRec(_, _, _, _, _)
BorrowRec(cols, base, k, borrow, acc) ==
    IF k > Len(cols) THEN acc
    ELSE LET s == cols[k] - borrow
         IN  IF s < 0 THEN BorrowRec(cols, base, k + 1, 1, Append(acc, s + base))
             ELSE BorrowRec(cols, base, k + 1, 0, Append(acc, s))

\* a - b, for a >= b
NSub(a, b) ==
    LET la == Limbs(a, 8)
        lb == Limbs(b, 8)
        cols == [k \in 1..Len(la) |-> la[k] - LimbAt(lb, k)]
    IN  Unlimbs(BorrowRec(cols, Pow10[9], 1, 0, <<>>), 8)

RECURSIVE ColumnSum(_, _, _, _)
\* sum of la[i] * lb[k + 1 - i] over the i from lo on that have both limbs
ColumnSum(la, lb, k, i) ==
    IF i > Len(la) \/ i > k THEN 0
    ELSE la[i] * lb[k + 1 - i] + ColumnSum(la, lb, k, i + 1)

NMul(a, b) ==
    LET la == Limbs(a, 3)
        lb == Limbs(b, 3)
        cols == [k \in 1..(Len(la) + Len(lb) - 1) |->
                    ColumnSum(la, lb, k, Max(1, k + 1 - Len(lb)))] \o <<>>
    IN  Unlimbs(CarryRec(cols, Pow10[4], 1, 0, <<>>), 3)

\* a * 10^k
NShl(a, k) == IF NIsZero(a) THEN a ELSE a \o Zeros(k)

RECURSIVE NDivModSmallRec(_, _, _, _)
NDivModSmallRec(a, m, i, st) ==
    IF i > Len(a) THEN [q |-> NStrip(st.q), r |-> st.r]
    ELSE LET cur == st.r * 10 + a[i]
             nxt == [q |-> Append(st.q, cur \div m), r |-> cur % m]
         IN  IF nxt.r < m THEN NDivModSmallRec(a, m, i + 1, nxt) ELSE nxt

\* divmod(a, m) for a machine-size divisor m > 0: [q |-> digits, r |-> 0..m-1]
NDivModSmall(a, m) == NDivModSmallRec(a, m, 1, [q |-> <<>>, r |-> 0])

(***************************************************************************)
(* Text: str as a sequence of code points                                  *)
(***************************************************************************)
UpperLetters == <<"A","B","C","D","E","F","G","H","I","J","K","L","M",
                  "N","O","P","Q","R","S","T","U","V","W","X","Y","Z">>

LowerLetters == <<"a","b","c","d","e","f","g","h","i","j","k","l","m",
                  "n","o","p","q","r","s","t","u","v","w","x","y","z">>

DigitChars == <<"0","1","2","3","4","5","6","7","8","9">>

\* ord(ch) for the ASCII characters the model writes
Ord(ch) ==
    IF \E i \in 1..26 : UpperLetters[i] = ch
    THEN 64 + (CHOOSE i \in 1..26 : UpperLetters[i] = ch)
    ELSE IF \E i \in 1..26 : LowerLetters[i] = ch
    THEN 96 + (CHOOSE i \in 1..26 : LowerLetters[i] = ch)
    ELSE IF \E i \in 1..10 : DigitChars[i] = ch
    THEN 47 + (CHOOSE i \in 1..10 : DigitChars[i] = ch)
    ELSE CASE ch = " " -> 32
           [] ch = "+" -> 43
           [] ch = "," -> 44
           [] ch = "-" -> 45
           [] ch = "." -> 46
           [] ch = ":" -> 58
           [] ch = "_" -> 95

\* the text whose characters are given one by one
Txt(chars) == [i \in 1..Len(chars) |-> Ord(chars[i])]

IsDigitCode(c) == c >= 48 /\ c <= 57

\* the text of a digit sequence
DigitsTxt(ds) == [i \in 1..Len(ds) |-> 48 + ds[i]]

\* the digits of an all-digit text
TxtDigits(s) == [i \in 1..Len(s) |-> s[i] - 48]

\* str.upper() on ASCII text
StrUpper(s) == [i \in 1..Len(s) |-> IF s[i] >= 97 /\ s[i] <= 122 THEN s[i] - 32 ELSE s[i]]

\* str.lower() on ASCII text
StrLower(s) == [i \in 1..Len(s) |-> IF s[i] >= 65 /\ s[i] <= 90 THEN s[i] + 32 ELSE s[i]]

\* s < t in Python's ordering of str: lexicographic by code point
StrLess(s, t) ==
    LET n == Min(Len(s), Len(t))
        diff == {i \in 1..n : s[i] # t[i]}
    IN  IF diff = {} THEN Len(s) < Len(t)
        ELSE LET i == CHOOSE j \in diff : \A k \in diff : j <= k
             IN  s[i] < t[i]

RECURSIVE SortedInsert(_, _)
SortedInsert(sorted, x) ==
    IF sorted = <<>> THEN <<x>>
    ELSE IF StrLess(x, Head(sorted)) THEN <<x>> \o sorted
    ELSE <<Head(sorted)>> \o SortedInsert(Tail(sorted), x)

RECURSIVE SortedStrs(_)
\* sorted(xs) for a sequence of texts (stable)
SortedStrs(xs) ==
    IF xs = <<>> THEN <<>>
    ELSE SortedInsert(SortedStrs(SubSeq(xs, 1, Len(xs) - 1)), xs[Len(xs)])

IsSpaceCode(c) == c = 32 \/ (c >= 9 /\ c <= 13)

RECURSIVE StrStrip(_)
\* str.strip()
StrStrip(s) ==
    IF s # <<>> /\ IsSpaceCode(s[1]) THEN StrStrip(Tail(s))
    ELSE IF s # <<>> /\ IsSpaceCode(s[Len(s)]) THEN StrStrip(SubSeq(s, 1, Len(s) - 1))
    ELSE s

\* s.replace(ch, '') for one character
StrRemove(s, c) == SelectSeq(s, LAMBDA x : x # c)

(***************************************************************************)
(* decimal.Decimal under the default context (prec 28, ROUND_HALF_EVEN,    *)
(* InvalidOperation trapped).  A finite value is (-1)^s * c * 10^e; "nan"  *)
(* and "inf" are the special values; "invalid" stands for a raised         *)
(* decimal.InvalidOperation, which every later operation passes on.        *)
(* Exponents stay far inside Emin..Emax, which are not modelled.           *)
(***************************************************************************)
DecimalPrec == 28

DFin(s, c, e) == [k |-> "fin", s |-> s, c |-> c, e |-> e]

DInf(s) == [k |-> "inf", s |-> s, c |-> <<0>>, e |-> 0]

DNaN == [k |-> "nan", s |-> 0, c |-> <<0>>, e |-> 0]

DInvalid == [k |-> "invalid", s |-> 0, c |-> <<0>>, e |-> 0]

\* Decimal(n) for a machine integer n >= 0
DInt(n) == DFin(0, NFromInt(n), 0)

DIsFinite(x) == x.k = "fin"

DIsZero(x) == x.k = "fin" /\ NIsZero(x.c)

\* Decimal._round_half_up: 1 round up, 0 exact, -1 round down, keeping p digits
RoundHalfUp(c, p) ==
    IF c[p + 1] >= 5 THEN 1
    ELSE IF \A i \in (p + 1)..Len(c) : c[i] = 0 THEN 0
    ELSE -1

\* Decimal._round_half_even
RoundHalfEven(c, p) ==
    IF /\ c[p + 1] = 5
       /\ \A i \in (p + 2)..Len(c) : c[i] = 0
       /\ (p = 0 \/ c[p] % 2 = 0)
    THEN -1
    ELSE RoundHalfUp(c, p)

\* the context's rounding: decimal.DefaultContext.rounding is ROUND_HALF_EVEN
ContextRounding(c, p) == RoundHalfEven(c, p)

\* Decimal._rescale(exp, rounding) of a finite value
DRescale(x, exp) ==
    IF NIsZero(x.c) THEN DFin(x.s, <<0>>, exp)
    ELSE IF x.e >= exp THEN DFin(x.s, x.c \o Zeros(x.e - exp), exp)
    ELSE LET digits == Len(x.c) + x.e - exp
             src == IF digits < 0 THEN <<1>> ELSE x.c
             keep == IF digits < 0 THEN 0 ELSE digits
             changed == ContextRounding(src, keep)
             coeff == IF keep = 0 THEN <<0>> ELSE SubSeq(src, 1, keep)
         IN  DFin(x.s, IF changed = 1 THEN NAdd(coeff, <<1>>) ELSE coeff, exp)

\* Decimal._fix: round a result to the context's precision
DFix(x) ==
    IF x.k # "fin" \/ NIsZero(x.c) \/ Len(x.c) <= DecimalPrec THEN x
    ELSE With(IF ContextRounding(x.c, DecimalPrec) > 0
              THEN NAdd(SubSeq(x.c, 1, DecimalPrec), <<1>>)
              ELSE SubSeq(x.c, 1, DecimalPrec),
              LAMBDA coeff :
                  IF Len(coeff) > DecimalPrec
                  THEN DFin(x.s, SubSeq(coeff, 1, DecimalPrec),
                            Len(x.c) + x.e - DecimalPrec + 1)
                  ELSE DFin(x.s, coeff, Len(x.c) + x.e - DecimalPrec))

DNeg(x) == IF x.k = "fin" \/ x.k = "inf" THEN [x EXCEPT !.s = 1 - x.s] ELSE x

\* the exact sum of two finite non-zero values at the exponent exp
DAddExact(x, y, exp, a, b) ==
    IF x.s = y.s THEN DFin(x.s, NAdd(a, b), exp)
    ELSE IF NCmp(a, b) = 0 THEN DFin(0, <<0>>, exp)
    ELSE IF NCmp(a, b) > 0 THEN DFin(x.s, NSub(a, b), exp)
    ELSE DFin(y.s, NSub(b, a), exp)

\* Decimal.__add__
DAdd(x, y) ==
    IF x.k = "invalid" \/ y.k = "invalid" THEN DInvalid
    ELSE IF x.k = "nan" \/ y.k = "nan" THEN DNaN
    ELSE IF x.k = "inf" /\ y.k = "inf" THEN (IF x.s = y.s THEN x ELSE DInvalid)
    ELSE IF x.k = "inf" THEN x
    ELSE IF y.k = "inf" THEN y
    ELSE DFix(IF NIsZero(x.c) /\ NIsZero(y.c)
              THEN DFin(Min(x.s, y.s), <<0>>, Min(x.e, y.e))
              ELSE IF NIsZero(x.c) \/ NIsZero(y.c)
              THEN With(IF NIsZero(x.c) THEN y ELSE x,
                        LAMBDA z : DRescale(z, Max(Min(x.e, y.e), z.e - DecimalPrec - 1)))
              ELSE DAddExact(x, y, Min(x.e, y.e),
                             NShl(x.c, x.e - Min(x.e, y.e)),
                             NShl(y.c, y.e - Min(x.e, y.e))))

\* Decimal.__sub__
DSub(x, y) == DAdd(x, DNeg(y))

\* Decimal.__mul__
DMul(x, y) ==
    IF x.k = "invalid" \/ y.k = "invalid" THEN DInvalid
    ELSE IF x.k = "nan" \/ y.k = "nan" THEN DNaN
    ELSE IF x.k = "inf" THEN (IF DIsZero(y) THEN DInvalid ELSE DInf((x.s + y.s) % 2))
    ELSE IF y.k = "inf" THEN (IF DIsZero(x) THEN DInvalid ELSE DInf((x.s + y.s) % 2))
    ELSE DFix(DFin((x.s + y.s) % 2, NMul(x.c, y.c), x.e + y.e))

RECURSIVE DStripTo(_, _, _)
\* the loop of __truediv__ for an exact quotient: towards the ideal exponent
DStripTo(coeff, exp, ideal) ==
    IF exp < ideal /\ coeff[Len(coeff)] = 0 /\ Len(coeff) > 1
    THEN DStripTo(SubSeq(coeff, 1, Len(coeff) - 1), exp + 1, ideal)
    ELSE [c |-> coeff, e |-> exp]

\* the quotient's coefficient and exponent from divmod's result qr: an
\* inexact quotient ending in 0 or 5 gets a sticky 1, an exact one loses
\* its trailing zeros down to the ideal exponent
DQuotient(qr, lowZero, exp, ideal) ==
    IF qr.r = 0 /\ lowZero THEN DStripTo(qr.q, exp, ideal)
    ELSE [c |-> IF qr.q[Len(qr.q)] % 5 = 0 THEN NAdd(qr.q, <<1>>) ELSE qr.q,
          e |-> exp]

\* Decimal.__truediv__ for a finite x and a finite non-zero y whose coefficient
\* is a machine integer (an index level, a count, 2 or 100)
DDivFinite(x, y) ==
    IF NIsZero(x.c) THEN DFix(DFin((x.s + y.s) % 2, <<0>>, x.e - y.e))
    ELSE With(Len(y.c) - Len(x.c) + DecimalPrec + 1,
              LAMBDA shift :
                  With(DQuotient(NDivModSmall(IF shift >= 0 THEN NShl(x.c, shift)
                                              ELSE NStrip(SubSeq(x.c, 1, Len(x.c) + shift)),
                                              NToInt(y.c)),
                                 \A i \in (Len(x.c) + shift + 1)..Len(x.c) : x.c[i] = 0,
                                 x.e - y.e - shift,
                                 x.e - y.e),
                       LAMBDA st : DFix(DFin((x.s + y.s) % 2, st.c, st.e))))

DDiv(x, y) ==
    IF x.k = "invalid" \/ y.k = "invalid" THEN DInvalid
    ELSE IF x.k = "nan" \/ y.k = "nan" THEN DNaN
    ELSE IF x.k = "inf" THEN (IF y.k = "inf" THEN DInvalid ELSE DInf((x.s + y.s) % 2))
    ELSE IF y.k = "inf" THEN DFin((x.s + y.s) % 2, <<0>>, 0)
    ELSE IF NIsZero(y.c) THEN DInvalid
    ELSE DDivFinite(x, y)

\* -1, 0, 1: the order of two finite or infinite values (Decimal._cmp)
DCmp(x, y) ==
    LET sx == IF DIsZero(x) THEN 0 ELSE IF x.s = 1 THEN -1 ELSE 1
        sy == IF DIsZero(y) THEN 0 ELSE IF y.s = 1 THEN -1 ELSE 1
    IN  IF sx # sy THEN (IF sx < sy THEN -1 ELSE 1)
        ELSE IF sx = 0 THEN 0
        ELSE IF x.k = "inf" \/ y.k = "inf"
        THEN (IF x.k = y.k THEN 0 ELSE IF x.k = "inf" THEN sx ELSE -sx)
        ELSE LET exp == Min(x.e, y.e)
             IN  sx * NCmp(NShl(x.c, x.e - exp), NShl(y.c, y.e - exp))

\* Decimal.quantize(Decimal(10) ** exp) with the context's rounding
DQuantize(x, exp) ==
    IF x.k = "invalid" THEN DInvalid
    ELSE IF x.k = "nan" THEN DNaN
    ELSE IF x.k = "inf" THEN DInvalid
    ELSE IF NIsZero(x.c) THEN DFin(x.s, <<0>>, exp)
    ELSE IF (Len(x.c) + x.e - 1) - exp + 1 > DecimalPrec THEN DInvalid
    ELSE With(DRescale(x, exp),
              LAMBDA ans : IF Len(ans.c) > DecimalPrec THEN DInvalid ELSE ans)

DSyntax == [k |-> "syntax", s |-> 0, c |-> <<0>>, e |-> 0]

RECURSIVE DigitRun(_, _)
\* how many digits s holds from position i on
DigitRun(s, i) == IF i <= Len(s) /\ IsDigitCode(s[i]) THEN 1 + DigitRun(s, i + 1) ELSE 0

\* the exponent part of b from position p on: [ok, val], where b must end
\* with it and "" is the exponent 0
DExponent(b, p) ==
    IF p > Len(b) THEN [ok |-> TRUE, val |-> 0]
    ELSE IF b[p] # 101 THEN [ok |-> FALSE, val |-> 0]
    ELSE With(IF p + 1 <= Len(b) /\ (b[p + 1] = 43 \/ b[p + 1] = 45) THEN p + 2 ELSE p + 1,
              LAMBDA q :
                  IF q > Len(b) \/ DigitRun(b, q) # Len(b) - q + 1
                  THEN [ok |-> FALSE, val |-> 0]
                  ELSE [ok |-> TRUE,
                        val |-> (IF b[p + 1] = 45 THEN -1 ELSE 1)
                                * NToInt(TxtDigits(SubSeq(b, q, Len(b))))])

\* the number with n1 integer digits and n2 fraction digits at the start of b
DNumber(sign, b, n1, n2, ex) ==
    IF n1 + n2 = 0 \/ ~ex.ok THEN DSyntax
    ELSE DFin(sign,
              NStrip(TxtDigits(SubSeq(b, 1, n1) \o SubSeq(b, n1 + 2, n1 + 1 + n2))),
              ex.val - n2)

\* the fraction after n1 integer digits: "." and digits, or nothing
DFraction(sign, b, n1) ==
    IF n1 < Len(b) /\ b[n1 + 1] = 46
    THEN With(DigitRun(b, n1 + 2),
              LAMBDA n2 : DNumber(sign, b, n1, n2, DExponent(b, n1 + n2 + 2)))
    ELSE DNumber(sign, b, n1, 0, DExponent(b, n1 + 1))

\* the number part of Decimal(str): [sign] digits [. digits] [E [sign] digits]
DParseNumber(sign, b) == DFraction(sign, b, DigitRun(b, 1))

\* Decimal(b) for the text b that follows the sign
DParseUnsigned(sign, b) ==
    IF b = Txt(<<"i","n","f">>) \/ b = Txt(<<"i","n","f","i","n","i","t","y">>)
    THEN DInf(sign)
    ELSE IF \E at \in 1..2 :
                /\ at = 2 => (Len(b) >= 1 /\ b[1] = 115)
                /\ Len(b) >= at + 2
                /\ SubSeq(b, at, at + 2) = Txt(<<"n","a","n">>)
                /\ DigitRun(b, at + 3) = Len(b) - at - 2
    THEN DNaN
    ELSE DParseNumber(sign, b)

\* Decimal(text) for the stripped, lower-cased text without underscores
DParseClean(t) ==
    IF t # <<>> /\ (t[1] = 43 \/ t[1] = 45)
    THEN DParseUnsigned(IF t[1] = 45 THEN 1 ELSE 0, Tail(t))
    ELSE DParseUnsigned(0, t)

\* Decimal(text): the value, or DSyntax where the constructor raises
\* InvalidOperation (ConversionSyntax)
DParse(text) == DParseClean(StrLower(StrRemove(StrStrip(text), 95)))

\* "%+d" % n
SignedIntTxt(n) == IF n < 0 THEN <<45>> \o DigitsTxt(NFromInt(-n))
                   ELSE <<43>> \o DigitsTxt(NFromInt(n))

\* Decimal.__str__ (scientific notation where the exponent asks for it)
DToStr(x) ==
    LET sign == IF x.s = 1 THEN <<45>> ELSE <<>>
        n == Len(x.c)
        leftdigits == x.e + n
        dotplace == IF x.e <= 0 /\ leftdigits > -6 THEN leftdigits ELSE 1
        intpart == IF dotplace <= 0 THEN <<48>>
                   ELSE IF dotplace >= n THEN DigitsTxt(x.c \o Zeros(dotplace - n))
                   ELSE DigitsTxt(SubSeq(x.c, 1, dotplace))
        fracpart == IF dotplace <= 0 THEN <<46>> \o DigitsTxt(Zeros(-dotplace) \o x.c)
                    ELSE IF dotplace >= n THEN <<>>
                    ELSE <<46>> \o DigitsTxt(SubSeq(x.c, dotplace + 1, n))
        exp == IF leftdigits = dotplace THEN <<>>
               ELSE <<69>> \o SignedIntTxt(leftdigits - dotplace)
    IN  CASE x.k = "inf" -> sign \o Txt(<<"I","n","f","i","n","i","t","y">>)
          [] x.k = "nan" -> sign \o Txt(<<"N","a","N">>)
          [] OTHER -> sign \o intpart \o fracpart \o exp

(***************************************************************************)
(* datetime.date                                                           *)
(***************************************************************************)
Date(y, m, d) == [y |-> y, m |-> m, d |-> d]

IsLeap(y) == y % 4 = 0 /\ (y % 100 # 0 \/ y % 400 = 0)

DaysInMonth(y, m) ==
    IF m = 2 THEN (IF IsLeap(y) THEN 29 ELSE 28)
    ELSE IF m \in {4, 6, 9, 11} THEN 30 ELSE 31

RECURSIVE DaysBeforeMonth(_, _)
DaysBeforeMonth(y, m) == IF m = 1 THEN 0 ELSE DaysBeforeMonth(y, m - 1) + DaysInMonth(y, m - 1)

\* date.toordinal(): day 1 is 0001-01-01
ToOrdinal(dt) ==
    LET py == dt.y - 1
    IN  py * 365 + py \div 4 - py \div 100 + py \div 400 + DaysBeforeMonth(dt.y, dt.m) + dt.d

\* (a - b).days
DaysBetween(a, b) == ToOrdinal(a) - ToOrdinal(b)

\* a <= b, as date compares: by (year, month, day)
DateLE(a, b) ==
    \/ a.y < b.y
    \/ a.y = b.y /\ a.m < b.m
    \/ a.y = b.y /\ a.m = b.m /\ a.d <= b.d

\* zero-padded decimal text of n in w characters ("%0wd")
PadNum(n, w) == LET ds == NFromInt(n) IN DigitsTxt(Zeros(w - Len(ds)) \o ds)

\* date.isoformat()
IsoFormat(dt) == PadNum(dt.y, 4) \o <<45>> \o PadNum(dt.m, 2) \o <<45>> \o PadNum(dt.d, 2)

NoDate == Date(0, 0, 0)

\* date.fromisoformat(text) for the YYYY-MM-DD form: [ok, date]; ok is FALSE
\* where it raises ValueError
FromIsoFormat(text) ==
    LET shaped == /\ Len(text) = 10
                  /\ text[5] = 45 /\ text[8] = 45
                  /\ \A i \in {1, 2, 3, 4, 6, 7, 9, 10} : IsDigitCode(text[i])
        y == NToInt(TxtDigits(SubSeq(text, 1, 4)))
        m == NToInt(TxtDigits(SubSeq(text, 6, 7)))
        d == NToInt(TxtDigits(SubSeq(text, 9, 10)))
    IN  IF shaped /\ y >= 1 /\ m >= 1 /\ m <= 12 /\ d >= 1 /\ d <= DaysInMonth(y, m)
        THEN [ok |-> TRUE, date |-> Date(y, m, d)]
        ELSE [ok |-> FALSE, date |-> NoDate]

RECURSIVE DateInsert(_, _)
DateInsert(sorted, x) ==
    IF sorted = <<>> THEN <<x>>
    ELSE IF ~DateLE(Head(sorted), x) THEN <<x>> \o sorted
    ELSE <<Head(sorted)>> \o DateInsert(Tail(sorted), x)

RECURSIVE SortedDates(_)
\* sorted(ds) for a sequence of dates
SortedDates(ds) ==
    IF ds = <<>> THEN <<>>
    ELSE DateInsert(SortedDates(SubSeq(ds, 1, Len(ds) - 1)), ds[Len(ds)])

(***************************************************************************)
(* JSON values of a payload: [t |-> type, v |-> value]                     *)
(*   int: [neg, n] with n a digit sequence; float: its repr text;          *)
(*   str: text; bool: TRUE/FALSE; list: a sequence of values;              *)
(*   dict: a mapping over InputKeys (a key it lacks maps to JAbsent);      *)
(*   absent: the key is not in the mapping.                                *)
(***************************************************************************)
JAbsent == [t |-> "absent", v |-> <<>>]

JNull == [t |-> "null", v |-> <<>>]

JBool(b) == [t |-> "bool", v |-> b]

JInt(n) == [t |-> "int", v |-> [neg |-> n < 0, n |-> NFromInt(IF n < 0 THEN -n ELSE n)]]

\* the integer d * 10^k
JIntE(d, k) == [t |-> "int", v |-> [neg |-> FALSE, n |-> NShl(NFromInt(d), k)]]

JFloat(repr) == [t |-> "float", v |-> repr]

JStr(text) == [t |-> "str", v |-> text]

JList(items) == [t |-> "list", v |-> items]

\* a tuple, which json.dumps writes as an array
PyTuple(items) == [t |-> "tuple", v |-> items]

\* a dict with exactly the given keys
PyDict(fields) == [t |-> "dict", v |-> fields]

InputKeys == {"last_post_money_valuation", "last_round_date", "public_index",
              "revenue_ltm", "sector", "statistic",
              "private_company_discount_pct", "peer_tickers"}

\* the mapping that holds exactly the given keys
JDict(fields) ==
    [t |-> "dict",
     v |-> [k \in InputKeys |-> IF k \in DOMAIN fields THEN fields[k] ELSE JAbsent]]

\* str(value), as parse_decimal applies it.  Of a list or a mapping only the
\* brackets are kept: no text that starts with one is a number.
PyStr(x) ==
    CASE x.t = "int" -> (IF x.v.neg THEN <<45>> ELSE <<>>) \o DigitsTxt(x.v.n)
      [] x.t = "float" -> x.v
      [] x.t = "str" -> x.v
      [] x.t = "bool" -> IF x.v THEN Txt(<<"T","r","u","e">>) ELSE Txt(<<"F","a","l","s","e">>)
      [] x.t = "list" -> <<91, 93>>
      [] x.t = "dict" -> <<123, 125>>
      [] OTHER -> Txt(<<"N","o","n","e">>)

\* bool(value): Python truthiness
Truthy(x) ==
    CASE x.t = "int" -> ~NIsZero(x.v.n)
      [] x.t = "float" -> ~DIsZero(DParse(x.v))
      [] x.t = "str" -> x.v # <<>>
      [] x.t = "bool" -> x.v
      [] x.t = "list" -> x.v # <<>>
      [] x.t = "dict" -> \E k \in InputKeys : x.v[k].t # "absent"
      [] OTHER -> FALSE

\* hashable values can be looked up in a dict or a set; a list or dict
\* raises TypeError there
Hashable(x) == x.t \notin {"list", "dict"}

(***************************************************************************)
(* Exceptions and outcomes                                                 *)
(***************************************************************************)
\* a raised exception: its class, which message, about which field, and the
\* texts the message interpolates
Exc(kind, code, field, args) == [kind |-> kind, code |-> code, field |-> field, args |-> args]

ValidationError(code, field, args) == Exc("ValidationError", code, field, args)

\* a failed lookup reported as a validation failure (a variant of
\* DataSourceError)
LookupFailureAsValidationError(code, args) == Exc("ValidationError", code, "", args)

DataSourceError(code, args) == Exc("DataSourceError", code, "", args)

\* an exception that is neither of the two: decimal.InvalidOperation,
\* TypeError, AttributeError
OtherError(kind, code) == Exc(kind, code, "", <<>>)

NoExc == Exc("none", "", "", <<>>)

Ok(v) == [ok |-> TRUE, val |-> v, err |-> NoExc]

Fail(e) == [ok |-> FALSE, val |-> <<>>, err |-> e]

\* the rest F of a computation after the step whose outcome is r: an
\* exception ends it
Bind(r, F(_)) == IF r.ok THEN F(r.val) ELSE r

(***************************************************************************)
(* validation.py                                                           *)
(***************************************************************************)
\* isinstance(value, expected): bool is a subclass of int
IsInstance(x, expected) == x.t \in expected \/ (x.t = "bool" /\ "int" \in expected)

\* require_field without its guard against booleans (a variant of
\* RequireField)
RequireFieldByInstance(payload, key, expected) ==
    IF payload[key].t \in {"absent", "null"}
    THEN Fail(ValidationError("missing", key, <<>>))
    ELSE IF ~IsInstance(payload[key], expected)
    THEN Fail(ValidationError("wrong_type", key, <<>>))
    ELSE Ok(payload[key])

\* require_field(payload, key, expected_type), payload a mapping over keys
RequireField(payload, key, expected) ==
    LET value == payload[key]
    IN  IF value.t \in {"absent", "null"}
        THEN Fail(ValidationError("missing", key, <<>>))
        ELSE IF value.t = "bool" /\ expected \cap {"int", "float"} # {}
        THEN Fail(ValidationError("bool_for_number", key, <<>>))
        ELSE IF ~IsInstance(value, expected)
        THEN Fail(ValidationError("wrong_type", key, <<>>))
        ELSE Ok(value)

\* parse_date(value)
ParseDate(value) ==
    IF value.t # "str" THEN Fail(ValidationError("date_not_str", "", <<>>))
    ELSE With(FromIsoFormat(value.v),
              LAMBDA r : IF r.ok THEN Ok(r.date)
                         ELSE Fail(ValidationError("invalid_date", "", <<value.v>>)))

\* parse_decimal without its sign check (a variant of ParseDecimal)
ParseDecimalSigned(value, field) ==
    IF value.t = "bool" THEN Fail(ValidationError("bool_for_number", field, <<>>))
    ELSE With(DParse(PyStr(value)),
              LAMBDA parsed :
                  IF parsed.k = "syntax"
                  THEN Fail(ValidationError("not_numeric", field, <<>>))
                  ELSE Ok(parsed))

\* parse_decimal(value, field_name).  The comparison of a NaN with
\* Decimal("0") raises InvalidOperation outside the try block.
ParseDecimal(value, field) ==
    IF value.t = "bool" THEN Fail(ValidationError("bool_for_number", field, <<>>))
    ELSE With(DParse(PyStr(value)),
              LAMBDA parsed :
                  IF parsed.k = "syntax"
                  THEN Fail(ValidationError("not_numeric", field, <<>>))
                  ELSE IF parsed.k = "nan"
                  THEN Fail(OtherError("InvalidOperation", "nan_comparison"))
                  ELSE IF DCmp(parsed, DInt(0)) < 0
                  THEN Fail(ValidationError("negative", field, <<>>))
                  ELSE Ok(parsed))

(***************************************************************************)
(* models.py: ValuationRequest.from_dict                                   *)
(***************************************************************************)
\* a payload maps these four keys to JSON values
FromDict(payload) ==
    Bind(RequireField(payload, "company_name", {"str"}), LAMBDA company_name :
    Bind(RequireField(payload, "methodology", {"str"}), LAMBDA methodology :
    Bind(RequireField(payload, "inputs", {"dict"}), LAMBDA inputs :
    Bind(RequireField(payload, "as_of_date", {"str"}), LAMBDA as_of_raw :
    Bind(ParseDate(as_of_raw), LAMBDA as_of_date :
        Ok([company_name |-> company_name.v,
            methodology |-> methodology.v,
            inputs |-> inputs.v,
            as_of_date |-> as_of_date]))))))

(***************************************************************************)
(* data_sources.py: the two mock providers and their catalogs              *)
(***************************************************************************)
\* one entry of an index history: the ISO date key and Decimal(level text)
Obs(key, level) == [key |-> key, level |-> DParse(level)]

NasdaqLevels ==
    <<Obs(Txt(<<"2","0","2","3","-","1","2","-","3","1">>),
          Txt(<<"1","5","0","1","1",".","3","5">>)),
      Obs(Txt(<<"2","0","2","4","-","0","3","-","3","1">>),
          Txt(<<"1","6","3","7","9",".","4","6">>)),
      Obs(Txt(<<"2","0","2","4","-","0","6","-","3","0">>),
          Txt(<<"1","7","6","3","7",".","1","2">>)),
      Obs(Txt(<<"2","0","2","4","-","0","9","-","3","0">>),
          Txt(<<"1","6","8","2","8",".","4","3">>)),
      Obs(Txt(<<"2","0","2","4","-","1","2","-","3","1">>),
          Txt(<<"1","8","8","4","2",".","1","2">>)),
      Obs(Txt(<<"2","0","2","5","-","0","3","-","3","1">>),
          Txt(<<"1","8","0","3","2",".","9","0">>)),
      Obs(Txt(<<"2","0","2","5","-","0","6","-","3","0">>),
          Txt(<<"1","9","4","2","2",".","5","5">>)),
      Obs(Txt(<<"2","0","2","5","-","0","9","-","3","0">>),
          Txt(<<"2","0","1","2","2",".","0","4">>)),
      Obs(Txt(<<"2","0","2","5","-","1","2","-","3","1">>),
          Txt(<<"2","0","9","0","5",".","8","8">>)),
      Obs(Txt(<<"2","0","2","6","-","0","2","-","1","8">>),
          Txt(<<"2","1","3","1","1",".","1","2">>))>>

RussellLevels ==
    <<Obs(Txt(<<"2","0","2","3","-","1","2","-","3","1">>),
          Txt(<<"2","0","1","1",".","4","4">>)),
      Obs(Txt(<<"2","0","2","4","-","0","3","-","3","1">>),
          Txt(<<"2","1","0","7",".","8","8">>)),
      Obs(Txt(<<"2","0","2","4","-","0","6","-","3","0">>),
          Txt(<<"2","0","5","6",".","3","1">>)),
      Obs(Txt(<<"2","0","2","4","-","0","9","-","3","0">>),
          Txt(<<"2","1","9","0",".","0","4">>)),
      Obs(Txt(<<"2","0","2","4","-","1","2","-","3","1">>),
          Txt(<<"2","2","5","1",".","1","1">>)),
      Obs(Txt(<<"2","0","2","5","-","0","3","-","3","1">>),
          Txt(<<"2","1","7","6",".","9","2">>)),
      Obs(Txt(<<"2","0","2","5","-","0","6","-","3","0">>),
          Txt(<<"2","2","9","4",".","5","3">>)),
      Obs(Txt(<<"2","0","2","5","-","0","9","-","3","0">>),
          Txt(<<"2","3","4","0",".","1","9">>)),
      Obs(Txt(<<"2","0","2","5","-","1","2","-","3","1">>),
          Txt(<<"2","3","8","9",".","4","4">>)),
      Obs(Txt(<<"2","0","2","6","-","0","2","-","1","8">>),
          Txt(<<"2","4","1","2",".","9","0">>))>>

NASDAQ_COMPOSITE == Txt(<<"N","A","S","D","A","Q","_","C","O","M","P","O","S","I","T","E">>)

RUSSELL_2000 == Txt(<<"R","U","S","S","E","L","L","_","2","0","0","0">>)

\* MockMarketIndexSource._INDEX_LEVELS, in the order the dict is written
INDEX_LEVELS ==
    <<[name |-> NASDAQ_COMPOSITE, history |-> NasdaqLevels],
      [name |-> RUSSELL_2000, history |-> RussellLevels]>>

ComparableCompany(ticker, company_name, sector, ev_to_revenue) ==
    [ticker |-> ticker, company_name |-> company_name, sector |-> sector,
     ev_to_revenue |-> DParse(ev_to_revenue)]

ENTERPRISE_SOFTWARE == Txt(<<"e","n","t","e","r","p","r","i","s","e","_","s","o","f","t","w","a","r","e">>)

CYBERSECURITY == Txt(<<"c","y","b","e","r","s","e","c","u","r","i","t","y">>)

INFRASTRUCTURE_SOFTWARE == Txt(<<"i","n","f","r","a","s","t","r","u","c","t","u","r","e","_","s","o","f","t","w","a","r","e">>)

\* MockComparableCompanySource._COMPS
COMPS ==
    <<ComparableCompany(Txt(<<"S","N","O","W">>), "Snowflake", ENTERPRISE_SOFTWARE,
                        Txt(<<"1","3",".","1">>)),
      ComparableCompany(Txt(<<"D","D","O","G">>), "Datadog", ENTERPRISE_SOFTWARE,
                        Txt(<<"1","2",".","4">>)),
      ComparableCompany(Txt(<<"M","D","B">>), "MongoDB", ENTERPRISE_SOFTWARE,
                        Txt(<<"9",".","2">>)),
      ComparableCompany(Txt(<<"Z","S">>), "Zscaler", ENTERPRISE_SOFTWARE,
                        Txt(<<"1","1",".","8">>)),
      ComparableCompany(Txt(<<"S">>), "SentinelOne", CYBERSECURITY,
                        Txt(<<"8",".","6">>)),
      ComparableCompany(Txt(<<"C","R","W","D">>), "CrowdStrike", CYBERSECURITY,
                        Txt(<<"1","4",".","2">>)),
      ComparableCompany(Txt(<<"O","K","T","A">>), "Okta", CYBERSECURITY,
                        Txt(<<"7",".","7">>)),
      ComparableCompany(Txt(<<"N","E","T">>), "Cloudflare", INFRASTRUCTURE_SOFTWARE,
                        Txt(<<"1","6",".","1">>)),
      ComparableCompany(Txt(<<"F","S","L","Y">>), "Fastly", INFRASTRUCTURE_SOFTWARE,
                        Txt(<<"3",".","8">>)),
      ComparableCompany(Txt(<<"E","S","T","C">>), "Elastic", INFRASTRUCTURE_SOFTWARE,
                        Txt(<<"5",".","3">>))>>

\* the entries of a history whose key is the text k (a dict has one at most)
HistoryAt(history, k) == SelectSeq(history, LAMBDA o : o.key = k)

\* the parsed keys of a history, in the dict's order
HistoryDates(history) == [i \in 1..Len(history) |-> FromIsoFormat(history[i].key).date]

\* the dates strictly before the requested one (a variant of AvailableDates)
DatesStrictlyBefore(candidate_dates, as_of_date) ==
    SelectSeq(candidate_dates, LAMBDA d : DateLE(d, as_of_date) /\ d # as_of_date)

\* every date a candidate, whatever the requested one (a variant of
\* AvailableDates)
AllCandidateDates(candidate_dates, as_of_date) == candidate_dates

\* get_level, line 64: [d for d in candidate_dates if d <= as_of_date]
AvailableDates(candidate_dates, as_of_date) ==
    SelectSeq(candidate_dates, LAMBDA d : DateLE(d, as_of_date))

\* get_level, lines 65-70: the latest of the available dates, or the error
LevelAt(index_name, history, as_of_date, available_dates) ==
    IF available_dates = <<>>
    THEN Fail(DataSourceError("no_level_on_or_before",
                              <<index_name, IsoFormat(as_of_date)>>))
    ELSE With(available_dates[Len(available_dates)],
              LAMBDA chosen_date :
                  Ok([as_of_date |-> chosen_date,
                      level |-> HistoryAt(history, IsoFormat(chosen_date))[1].level]))

\* MockMarketIndexSource.get_level(index_name, as_of_date) against the
\* catalog levels; index_name is whatever the inputs held
get_level(levels, index_name, as_of_date) ==
    IF ~Hashable(index_name) THEN Fail(OtherError("TypeError", "unhashable"))
    ELSE IF index_name.t # "str" \/ \A i \in 1..Len(levels) : levels[i].name # index_name.v
    THEN Fail(DataSourceError("unknown_index", <<PyStr(index_name)>>))
    ELSE With(SelectSeq(levels, LAMBDA e : e.name = index_name.v)[1].history,
              LAMBDA history :
                  LevelAt(index_name.v, history, as_of_date,
                          AvailableDates(SortedDates(HistoryDates(history)), as_of_date)))

\* a catalog that hands its entries out and forgets them (a variant of
\* CatalogAfterLookup)
CatalogWithoutPeers(catalog, found) ==
    SelectSeq(catalog, LAMBDA c : \A i \in 1..Len(found) : found[i].ticker # c.ticker)

\* _COMPS after list_by_sector or list_by_tickers: both build a new list from
\* the tuple and leave it as it was
CatalogAfterLookup(catalog, found) == catalog

\* MockComparableCompanySource.list_by_sector(sector)
list_by_sector(catalog, sector) ==
    LET found == SelectSeq(catalog, LAMBDA c : c.sector = sector)
    IN  IF found = <<>> THEN Fail(DataSourceError("no_comps_for_sector", <<sector>>))
        ELSE Ok(found)

RECURSIVE SortedTextSet(_)
\* sorted(S) for a set of texts
SortedTextSet(S) ==
    IF S = {} THEN <<>>
    ELSE LET least == CHOOSE x \in S : \A y \in S : x = y \/ StrLess(x, y)
         IN  <<least>> \o SortedTextSet(S \ {least})

\* list_by_tickers comparing the tickers as written (a variant of
\* list_by_tickers)
list_by_tickers_as_written(catalog, tickers) ==
    IF \E i \in 1..Len(tickers) : tickers[i].t # "str"
    THEN Fail(OtherError("AttributeError", "upper"))
    ELSE LET ticker_set == {tickers[i].v : i \in 1..Len(tickers)}
             found == SelectSeq(catalog, LAMBDA c : c.ticker \in ticker_set)
             missing == SortedTextSet(ticker_set \ {found[i].ticker : i \in 1..Len(found)})
         IN  IF missing # <<>> THEN Fail(DataSourceError("missing_tickers", missing))
             ELSE Ok(found)

\* MockComparableCompanySource.list_by_tickers(tickers), tickers a list of
\* JSON values: an element without .upper() raises AttributeError
list_by_tickers(catalog, tickers) ==
    IF \E i \in 1..Len(tickers) : tickers[i].t # "str"
    THEN Fail(OtherError("AttributeError", "upper"))
    ELSE LET ticker_set == {StrUpper(tickers[i].v) : i \in 1..Len(tickers)}
             found == SelectSeq(catalog, LAMBDA c : c.ticker \in ticker_set)
             missing == SortedTextSet(ticker_set \ {found[i].ticker : i \in 1..Len(found)})
         IN  IF missing # <<>> THEN Fail(DataSourceError("missing_tickers", missing))
             ELSE Ok(found)

RECURSIVE DecInsert(_, _)
DecInsert(sorted, x) ==
    IF sorted = <<>> THEN <<x>>
    ELSE IF DCmp(x, Head(sorted)) < 0 THEN <<x>> \o sorted
    ELSE <<Head(sorted)>> \o DecInsert(Tail(sorted), x)

RECURSIVE SortedDecs(_)
\* sorted(xs) for a sequence of finite Decimals
SortedDecs(xs) ==
    IF xs = <<>> THEN <<>>
    ELSE DecInsert(SortedDecs(SubSeq(xs, 1, Len(xs) - 1)), xs[Len(xs)])

\* the two statistics by name
MedianName == Txt(<<"m", "e", "d", "i", "a", "n">>)

MeanName == Txt(<<"m", "e", "a", "n">>)

\* the middle of the sorted data
MedianOfSorted(sorted, n) ==
    IF n % 2 = 1 THEN sorted[n \div 2 + 1]
    ELSE DDiv(DAdd(sorted[n \div 2], sorted[n \div 2 + 1]), DInt(2))

\* the lower of the two middle values in place of their mean (a variant of
\* Median)
MedianLow(data) == SortedDecs(data)[(Len(data) + 1) \div 2]

\* statistics.median(data) for non-empty data
Median(data) == MedianOfSorted(SortedDecs(data), Len(data))

RECURSIVE GCD(_, _)
GCD(a, b) == IF b = 0 THEN a ELSE GCD(b, a % b)

RECURSIVE ScaledSum(_, _, _)
\* the sum of the coefficients of xs[i..] at the common exponent e
ScaledSum(xs, e, i) ==
    IF i > Len(xs) THEN 0
    ELSE NToInt(NShl(xs[i].c, xs[i].e - e)) + ScaledSum(xs, e, i + 1)

\* numerator / denominator in lowest terms, as Decimal divides them
DFraction2(num, den, g) == DDiv(DInt(num \div g), DInt(den \div g))

\* the mean of data whose least exponent is e
MeanAt(data, e) ==
    With(ScaledSum(data, e, 1),
         LAMBDA num : DFraction2(num, Len(data) * Pow10[1 - e],
                                 GCD(num, Len(data) * Pow10[1 - e])))

\* statistics.mean(data) for non-empty data of positive Decimals with
\* exponents <= 0: the exact sum as a fraction, divided by n, reduced, and
\* then Decimal(numerator) / Decimal(denominator)
Mean(data) ==
    MeanAt(data, CHOOSE x \in {data[i].e : i \in 1..Len(data)} :
                     \A i \in 1..Len(data) : x <= data[i].e)

\* MockComparableCompanySource.aggregate_multiple(comps, statistic), statistic
\* a text
aggregate_multiple(peers, statistic) ==
    IF statistic # MedianName /\ statistic # MeanName
    THEN Fail(DataSourceError("unsupported_statistic", <<statistic>>))
    ELSE IF peers = <<>>
    THEN Fail(OtherError("StatisticsError", "empty_data"))
    ELSE With([i \in 1..Len(peers) |-> peers[i].ev_to_revenue],
              LAMBDA multiples :
                  Ok(DParse(DToStr(IF statistic = MedianName THEN Median(multiples)
                                   ELSE Mean(multiples)))))

(***************************************************************************)
(* methodologies/last_round.py                                             *)
(***************************************************************************)
\* LastRoundMarketAdjustedMethodology.name
LastRoundName == Txt(<<"l", "a", "s", "t", "_", "r", "o", "u", "n", "d", "_", "m", "a", "r", "k", "e", "t", "_", "a", "d", "j", "u", "s", "t", "e", "d">>)

\* inputs.get(key, default)
InputsGet(inputs, key, default) ==
    IF inputs[key].t = "absent" THEN default ELSE inputs[key]

\* valuate, lines 19-25: the inputs as parsed before any lookup
LastRoundInputs(inputs) ==
    Bind(RequireField(inputs, "last_post_money_valuation", {"int", "float", "str"}),
         LAMBDA raw :
    Bind(ParseDecimal(raw, "last_post_money_valuation"), LAMBDA last_post_money :
    Bind(RequireField(inputs, "last_round_date", {"str"}), LAMBDA raw_date :
    Bind(ParseDate(raw_date), LAMBDA last_round_date :
        Ok([last_post_money |-> last_post_money,
            last_round_date |-> last_round_date,
            public_index |-> InputsGet(inputs, "public_index",
                                       JStr(NASDAQ_COMPOSITE))])))))

\* the change from the as-of level back to the round's (a variant of PctChange)
PctChangeInverted(as_of_level, last_round_level) ==
    DSub(DDiv(last_round_level.level, as_of_level.level), DInt(1))

\* valuate, line 29
PctChange(as_of_level, last_round_level) ==
    DSub(DDiv(as_of_level.level, last_round_level.level), DInt(1))

\* the change alone as the multiplier (a variant of Multiplier)
MultiplierWithoutOne(pct_change) == pct_change

\* valuate, line 30
Multiplier(pct_change) == DAdd(DInt(1), pct_change)

\* valuate, line 31, and what the result keeps of lines 29-30
Adjusted(last_post_money, pct_change, multiplier) ==
    With(DQuantize(DMul(last_post_money, multiplier), -2),
         LAMBDA adjusted_value :
             IF adjusted_value.k # "fin"
             THEN Fail(OtherError("InvalidOperation", "quantize"))
             ELSE Ok([pct_change |-> pct_change,
                      multiplier |-> multiplier,
                      adjusted_value |-> adjusted_value]))

\* valuate, lines 29-31: quantize raises InvalidOperation for an infinite
\* operand and for a result of more than 28 digits
LastRoundCompute(last_post_money, last_round_level, as_of_level) ==
    With(PctChange(as_of_level, last_round_level),
         LAMBDA pct_change : Adjusted(last_post_money, pct_change, Multiplier(pct_change)))

\* the tiers with their bounds included (a variant of StalenessRisk)
StalenessRiskFrom(days_since_round) ==
    IF days_since_round >= 365 THEN "HIGH"
    ELSE IF days_since_round >= 180 THEN "MEDIUM"
    ELSE "LOW"

\* valuate, lines 68-73
StalenessRisk(days_since_round) ==
    IF days_since_round > 365 THEN "HIGH"
    ELSE IF days_since_round > 180 THEN "MEDIUM"
    ELSE "LOW"

\* models.py, Citation: the dataclass with its defaults "" and ()
Citation(label, detail, dataset_version, resolved_data_points) ==
    [label |-> label, detail |-> detail, dataset_version |-> dataset_version,
     resolved_data_points |-> resolved_data_points]

\* Citation.to_dict: an empty version and an empty tuple of points are left
\* out, and the tuple of points becomes a list
CitationToDict(c) ==
    With(JList([i \in 1..Len(c.resolved_data_points) |-> JStr(c.resolved_data_points[i])]),
         LAMBDA points :
             IF c.dataset_version # <<>> /\ c.resolved_data_points # <<>>
             THEN PyDict([label |-> JStr(c.label), detail |-> JStr(c.detail),
                          dataset_version |-> JStr(c.dataset_version),
                          resolved_data_points |-> points])
             ELSE IF c.dataset_version # <<>>
             THEN PyDict([label |-> JStr(c.label), detail |-> JStr(c.detail),
                          dataset_version |-> JStr(c.dataset_version)])
             ELSE IF c.resolved_data_points # <<>>
             THEN PyDict([label |-> JStr(c.label), detail |-> JStr(c.detail),
                          resolved_data_points |-> points])
             ELSE PyDict([label |-> JStr(c.label), detail |-> JStr(c.detail)]))

\* data_sources.MARKET_INDEX_DATASET_VERSION, which last_round.py imports: the
\* version text of the index dataset, a non-empty text
MARKET_INDEX_DATASET_VERSION == Txt(<<"v", "1">>)

\* valuate, lines 56-59: f"{public_index}@{level.as_of_date.isoformat()}={level.level}"
ResolvedDataPoint(public_index, level) ==
    PyStr(public_index) \o <<64>> \o IsoFormat(level.as_of_date) \o <<61>> \o DToStr(level.level)

\* valuate, lines 47-61: the label and the detail are fixed texts
LastRoundCitations(public_index, last_round_level, as_of_level) ==
    <<Citation("Mock market index dataset",
               "In-memory monthly index levels for NASDAQ Composite and Russell 2000 (vc_audit_tool.data_sources.MockMarketIndexSource).",
               MARKET_INDEX_DATASET_VERSION,
               <<ResolvedDataPoint(public_index, last_round_level),
                 ResolvedDataPoint(public_index, as_of_level)>>)>>

\* valuate, lines 64-99: the ValuationResult without its audit metadata
LastRoundResult(request, v, last_round_level, as_of_level, c) ==
    [company_name |-> request.company_name,
     methodology |-> LastRoundName,
     as_of_date |-> request.as_of_date,
     estimated_fair_value |-> c.adjusted_value,
     inputs_used |-> [last_post_money_valuation |-> v.last_post_money,
                      last_round_date |-> IsoFormat(v.last_round_date),
                      public_index |-> v.public_index,
                      index_level_last_round |-> last_round_level.level,
                      index_level_as_of_date |-> as_of_level.level],
     citations |-> LastRoundCitations(v.public_index, last_round_level, as_of_level),
     confidence_indicators |->
         [days_since_last_round |-> DaysBetween(request.as_of_date, v.last_round_date),
          index_data_freshness_gap_days |->
              DaysBetween(request.as_of_date, as_of_level.as_of_date),
          staleness_risk |->
              StalenessRisk(DaysBetween(request.as_of_date, v.last_round_date))]]

(***************************************************************************)
(* methodologies/comps.py                                                  *)
(***************************************************************************)
\* ComparableCompaniesMethodology.name
CompsName == Txt(<<"c", "o", "m", "p", "a", "r", "a", "b", "l", "e", "_", "c", "o", "m", "p", "a", "n", "i", "e", "s">>)

\* valuate, lines 24-26.  A list or mapping as statistic cannot be looked up
\* in the set: TypeError.
Statistic(statistic) ==
    IF ~Hashable(statistic) THEN Fail(OtherError("TypeError", "unhashable"))
    ELSE IF statistic.t # "str" \/ statistic.v \notin {MedianName, MeanName}
    THEN Fail(ValidationError("statistic_not_median_or_mean", "statistic", <<>>))
    ELSE Ok(statistic.v)

\* valuate, lines 27-32
PrivateDiscountPct(value) ==
    Bind(ParseDecimal(value, "private_company_discount_pct"),
         LAMBDA private_discount_pct :
             IF DCmp(private_discount_pct, DInt(100)) > 0
             THEN Fail(ValidationError("exceeds_100", "private_company_discount_pct", <<>>))
             ELSE Ok(private_discount_pct))

\* valuate, lines 19-34: the inputs as parsed before the peers are resolved
CompsInputs(inputs) ==
    Bind(RequireField(inputs, "revenue_ltm", {"int", "float", "str"}), LAMBDA raw :
    Bind(ParseDecimal(raw, "revenue_ltm"), LAMBDA revenue :
    Bind(RequireField(inputs, "sector", {"str"}), LAMBDA sector :
    Bind(Statistic(InputsGet(inputs, "statistic", JStr(MedianName))), LAMBDA statistic :
    Bind(PrivateDiscountPct(InputsGet(inputs, "private_company_discount_pct", JInt(0))),
         LAMBDA private_discount_pct :
        Ok([revenue |-> revenue,
            sector |-> sector.v,
            statistic |-> statistic,
            private_discount_pct |-> private_discount_pct,
            tickers |-> inputs["peer_tickers"]]))))))

\* the sector's peers whatever peer_tickers holds (a variant of PeerLookup)
PeerLookupBySector(tickers) == "list_by_sector"

\* valuate, lines 35-42: which provider operation resolves the peers
PeerLookup(tickers) ==
    IF Truthy(tickers)
    THEN (IF tickers.t # "list" THEN "invalid" ELSE "list_by_tickers")
    ELSE "list_by_sector"

\* valuate, lines 35-42
ResolveComps(catalog, v) ==
    CASE PeerLookup(v.tickers) = "invalid" ->
             Fail(ValidationError("not_a_list", "peer_tickers", <<>>))
      [] PeerLookup(v.tickers) = "list_by_tickers" -> list_by_tickers(catalog, v.tickers.v)
      [] OTHER -> list_by_sector(catalog, v.sector)

\* the discount itself as the share kept (a variant of DiscountMultiplier)
DiscountShare(private_discount_pct) == DDiv(private_discount_pct, DInt(100))

\* the percentage kept instead of the share (a variant of DiscountMultiplier)
PercentKept(private_discount_pct) == DSub(DInt(100), private_discount_pct)

\* valuate, line 46
DiscountMultiplier(private_discount_pct) ==
    DDiv(DSub(DInt(100), private_discount_pct), DInt(100))

\* valuate, line 47, and what the result keeps of lines 45-46
Discounted(gross_value, discount_multiplier) ==
    With(DQuantize(DMul(gross_value, discount_multiplier), -2),
         LAMBDA adjusted_value :
             IF adjusted_value.k # "fin"
             THEN Fail(OtherError("InvalidOperation", "quantize"))
             ELSE Ok([gross_value |-> gross_value,
                      discount_multiplier |-> discount_multiplier,
                      adjusted_value |-> adjusted_value]))

\* valuate, lines 45-47
CompsCompute(revenue, selected_multiple, private_discount_pct) ==
    Discounted(DMul(revenue, selected_multiple), DiscountMultiplier(private_discount_pct))

\* the tiers with three peers counted as few (a variant of PeerSetQuality)
PeerSetQualityAbove(peer_count) ==
    IF peer_count <= 3 THEN "LOW"
    ELSE IF peer_count <= 5 THEN "MEDIUM"
    ELSE "HIGH"

\* valuate, lines 78-83
PeerSetQuality(peer_count) ==
    IF peer_count < 3 THEN "LOW"
    ELSE IF peer_count < 5 THEN "MEDIUM"
    ELSE "HIGH"

\* valuate, lines 63-71: Citation(label=..., detail=...), the version and the
\* points left at their defaults
CompsCitations ==
    <<Citation("Mock public comp dataset",
               "In-memory EV/Revenue multiples by ticker and sector (vc_audit_tool.data_sources.MockComparableCompanySource).",
               <<>>, <<>>)>>

\* valuate, lines 74-115: the ValuationResult without its audit metadata
CompsResult(request, v, peers, selected_multiple, c) ==
    [company_name |-> request.company_name,
     methodology |-> CompsName,
     as_of_date |-> request.as_of_date,
     estimated_fair_value |-> c.adjusted_value,
     inputs_used |-> [revenue_ltm |-> v.revenue,
                      sector |-> v.sector,
                      statistic |-> v.statistic,
                      peer_companies |->
                          [i \in 1..Len(peers) |->
                              [ticker |-> peers[i].ticker,
                               company_name |-> peers[i].company_name,
                               ev_to_revenue |-> peers[i].ev_to_revenue]],
                      private_company_discount_pct |-> v.private_discount_pct],
     citations |-> CompsCitations,
     confidence_indicators |->
         [peer_count |-> Len(peers),
          peer_set_quality |-> PeerSetQuality(Len(peers))]]

(***************************************************************************)
(* engine.py: ValuationEngine                                              *)
(***************************************************************************)
\* __init__, lines 21-24: the registry, a dict in insertion order
Registry ==
    <<[name |-> LastRoundName, impl |-> "LastRoundMarketAdjustedMethodology"],
      [name |-> CompsName, impl |-> "ComparableCompaniesMethodology"]>>

\* self._methodologies.get(name): the entries under that name
RegistryGet(registry, name) == SelectSeq(registry, LAMBDA e : e.name = name)

RECURSIVE JoinStrs(_, _)
\* sep.join(xs)
JoinStrs(xs, sep) ==
    IF xs = <<>> THEN <<>>
    ELSE IF Len(xs) = 1 THEN xs[1]
    ELSE xs[1] \o sep \o JoinStrs(Tail(xs), sep)

\* the registry's names joined in the order of registration (a variant of
\* AvailableNames)
AvailableNamesInsertionOrder(registry) ==
    JoinStrs([i \in 1..Len(registry) |-> registry[i].name], <<44, 32>>)

\* evaluate, line 29: ", ".join(sorted(self._methodologies.keys()))
AvailableNames(registry) ==
    JoinStrs(SortedStrs([i \in 1..Len(registry) |-> registry[i].name]), <<44, 32>>)

\* evaluate, lines 27-32: the methodology to delegate to, or the error
Dispatch(registry, request) ==
    LET found == RegistryGet(registry, request.methodology)
    IN  IF found = <<>>
        THEN Fail(ValidationError("unknown_methodology", "methodology",
                                  <<request.methodology, AvailableNames(registry)>>))
        ELSE Ok(found[1].impl)

\* evaluate_from_dict(payload), lines 27-37, run from its first line to its
\* last on an engine with this registry and these catalogs
evaluate_from_dict(registry, levels, catalog, payload) ==
    Bind(FromDict(payload), LAMBDA request :
    Bind(Dispatch(registry, request), LAMBDA methodology :
        IF methodology = "LastRoundMarketAdjustedMethodology"
        THEN Bind(LastRoundInputs(request.inputs), LAMBDA v :
             Bind(get_level(levels, v.public_index, v.last_round_date), LAMBDA a :
             Bind(get_level(levels, v.public_index, request.as_of_date), LAMBDA b :
             Bind(LastRoundCompute(v.last_post_money, a, b), LAMBDA c :
                 Ok(LastRoundResult(request, v, a, b, c))))))
        ELSE Bind(CompsInputs(request.inputs), LAMBDA v :
             Bind(ResolveComps(catalog, v), LAMBDA peers :
             Bind(aggregate_multiple(peers, v.statistic), LAMBDA m :
             Bind(CompsCompute(v.revenue, m, v.private_discount_pct), LAMBDA c :
                 Ok(CompsResult(request, v, peers, m, c))))))))

(***************************************************************************)
(* Bounds and the requests the callers send                                *)
(***************************************************************************)
\* callers that use the one engine at the same time
NThreads == 2

Threads == 1..NThreads

\* the values uuid4() is drawn from
NUuid == 2

UUIDs == 1..NUuid

\* how many days around an observation date the requested dates range
DateShift == 1

Payload(company_name, methodology, inputs, as_of_date) ==
    [company_name |-> company_name, methodology |-> methodology,
     inputs |-> inputs, as_of_date |-> as_of_date]

BasisAI == JStr(Txt(<<"B", "a", "s", "i", "s", " ", "A", "I">>))

Scenario_A ==
    Payload(BasisAI, JStr(LastRoundName),
            JDict([last_post_money_valuation |-> JIntE(1, 8),
                   last_round_date |-> JStr(Txt(<<"2", "0", "2", "4", "-", "0", "6", "-", "3", "0">>)),
                   public_index |-> JStr(NASDAQ_COMPOSITE)]),
            JStr(Txt(<<"2", "0", "2", "6", "-", "0", "2", "-", "1", "8">>)))

Scenario_B ==
    Payload(BasisAI, JStr(CompsName),
            JDict([revenue_ltm |-> JIntE(1, 7),
                   sector |-> JStr(ENTERPRISE_SOFTWARE),
                   statistic |-> JStr(MedianName),
                   private_company_discount_pct |-> JInt(20)]),
            JStr(Txt(<<"2", "0", "2", "6", "-", "0", "2", "-", "1", "8">>)))

\* the requests of the concurrent callers: the two documented scenarios, an
\* explicit peer list, an unregistered methodology, a round before all index
\* data, and a payload without company_name
EnginePayloads ==
    <<Scenario_A,
      Scenario_B,
      Payload(BasisAI, JStr(CompsName),
              JDict([revenue_ltm |-> JStr(Txt(<<"2", "5", "0", "0", "0", "0", "0", ".", "7", "5">>)),
                     sector |-> JStr(CYBERSECURITY),
                     statistic |-> JStr(MeanName),
                     peer_tickers |-> JList(<<JStr(Txt(<<"s", "n", "o", "w">>)), JStr(Txt(<<"N", "E", "T">>))>>)]),
              JStr(Txt(<<"2", "0", "2", "6", "-", "0", "2", "-", "1", "8">>))),
      Payload(BasisAI, JStr(Txt(<<"d", "c", "f">>)), JDict([sector |-> JStr(CYBERSECURITY)]),
              JStr(Txt(<<"2", "0", "2", "6", "-", "0", "2", "-", "1", "8">>))),
      Payload(BasisAI, JStr(LastRoundName),
              JDict([last_post_money_valuation |-> JInt(5),
                     last_round_date |-> JStr(Txt(<<"2", "0", "2", "3", "-", "0", "1", "-", "0", "1">>))]),
              JStr(Txt(<<"2", "0", "2", "6", "-", "0", "2", "-", "1", "8">>))),
      Payload(JAbsent, JStr(LastRoundName), JDict([sector |-> JStr(CYBERSECURITY)]),
              JStr(Txt(<<"2", "0", "2", "6", "-", "0", "2", "-", "1", "8">>)))>>

(***************************************************************************)
(* The engine under its callers.  Each caller runs evaluate_from_dict; its *)
(* position and locals are threads[t].  The registry and the two catalogs  *)
(* are the state the callers share.                                        *)
(***************************************************************************)
VARIABLES methodologies, index_levels, comps, threads, runs, http

vars == <<methodologies, index_levels, comps, threads, runs, http>>

\* what no step of an evaluation changes: the engine's registry and catalogs,
\* the stored runs and the HTTP request in hand
shared == <<methodologies, index_levels, comps, runs, http>>

None == <<>>

\* no HTTP request is being handled
NoRequest ==
    [pc |-> "idle", adapter |-> "", method |-> "", route |-> "", run_id |-> None,
     limit |-> 0, body |-> None, status |-> 0, reply |-> None]

\* a caller outside any call
Idle ==
    [pc |-> "idle", input |-> 0, payload |-> None, request |-> None,
     delegate |-> "", v |-> None, last_round_level |-> None, as_of_level |-> None,
     peers |-> None, selected_multiple |-> None, c |-> None, calls |-> <<>>,
     outcome |-> None, request_id |-> 0]

\* a caller that has just entered evaluate_from_dict(payload)
Entered(i, payload) == [Idle EXCEPT !.pc = "from_dict", !.input = i, !.payload = payload]

\* the exception leaves evaluate_from_dict
Raise(th, e) == [th EXCEPT !.pc = "done", !.outcome = Fail(e)]

\* the caller after a step whose outcome is r: on with F, or the exception
Advance(th, r, F(_)) == IF r.ok THEN F(r.val) ELSE Raise(th, r.err)

\* the caller with one more provider call on record
Calling(th, op) == [th EXCEPT !.calls = Append(@, op)]

IsLastRound(th) == th.delegate = "LastRoundMarketAdjustedMethodology"

\* ValuationEngine.__init__
Init ==
    /\ methodologies = Registry
    /\ index_levels = INDEX_LEVELS
    /\ comps = COMPS
    /\ runs = <<>>
    /\ http = NoRequest
    /\ threads = [t \in Threads |-> Idle]

\* a caller calls evaluate_from_dict with one of the requests
Call(t) ==
    /\ threads[t].pc = "idle"
    /\ \E i \in 1..Len(EnginePayloads) :
           threads' = [threads EXCEPT ![t] = Entered(i, EnginePayloads[i])]
    /\ UNCHANGED shared

\* evaluate_from_dict, line 36
FromDictStep(t) ==
    /\ threads[t].pc = "from_dict"
    /\ threads' = [threads EXCEPT ![t] =
           Advance(@, FromDict(@.payload),
                   LAMBDA request : [threads[t] EXCEPT !.pc = "evaluate",
                                                       !.request = request])]
    /\ UNCHANGED shared

\* evaluate, lines 27-32: look the methodology up in the registry
Evaluate(t) ==
    /\ threads[t].pc = "evaluate"
    /\ threads' = [threads EXCEPT ![t] =
           Advance(@, Dispatch(methodologies, @.request),
                   LAMBDA methodology : [threads[t] EXCEPT !.pc = "validate",
                                                           !.delegate = methodology])]
    /\ UNCHANGED shared

\* evaluate, line 33, into valuate: the inputs are parsed
ValidateInputs(t) ==
    /\ threads[t].pc = "validate"
    /\ threads' = [threads EXCEPT ![t] =
           IF IsLastRound(@)
           THEN Advance(@, LastRoundInputs(@.request.inputs),
                        LAMBDA v : [threads[t] EXCEPT !.pc = "lookup_round", !.v = v])
           ELSE Advance(@, CompsInputs(@.request.inputs),
                        LAMBDA v : [threads[t] EXCEPT !.pc = "resolve_peers", !.v = v])]
    /\ UNCHANGED shared

\* last_round.py, line 27
LookupLastRound(t) ==
    /\ threads[t].pc = "lookup_round"
    /\ threads' = [threads EXCEPT ![t] =
           Advance(Calling(@, "get_level"),
                   get_level(index_levels, @.v.public_index, @.v.last_round_date),
                   LAMBDA point : [Calling(threads[t], "get_level")
                                       EXCEPT !.pc = "lookup_as_of",
                                              !.last_round_level = point])]
    /\ UNCHANGED shared

\* last_round.py, line 28
LookupAsOf(t) ==
    /\ threads[t].pc = "lookup_as_of"
    /\ threads' = [threads EXCEPT ![t] =
           Advance(Calling(@, "get_level"),
                   get_level(index_levels, @.v.public_index, @.request.as_of_date),
                   LAMBDA point : [Calling(threads[t], "get_level")
                                       EXCEPT !.pc = "compute", !.as_of_level = point])]
    /\ UNCHANGED shared

\* comps.py, lines 34-42: a peer_tickers that is no list raises before any
\* provider is called
ResolvePeers(t) ==
    /\ threads[t].pc = "resolve_peers"
    /\ \E r \in {ResolveComps(comps, threads[t].v)} :
       \E th \in {IF PeerLookup(threads[t].v.tickers) = "invalid" THEN threads[t]
                  ELSE Calling(threads[t], PeerLookup(threads[t].v.tickers))} :
           /\ threads' = [threads EXCEPT ![t] =
                  Advance(th, r, LAMBDA peers : [th EXCEPT !.pc = "aggregate",
                                                           !.peers = peers])]
           /\ comps' = IF r.ok THEN CatalogAfterLookup(comps, r.val) ELSE comps
    /\ UNCHANGED <<methodologies, index_levels, runs, http>>

\* comps.py, line 44
Aggregate(t) ==
    /\ threads[t].pc = "aggregate"
    /\ threads' = [threads EXCEPT ![t] =
           Advance(Calling(@, "aggregate_multiple"),
                   aggregate_multiple(@.peers, @.v.statistic),
                   LAMBDA selected_multiple :
                       [Calling(threads[t], "aggregate_multiple")
                            EXCEPT !.pc = "compute",
                                   !.selected_multiple = selected_multiple])]
    /\ UNCHANGED shared

\* the arithmetic of valuate and the ValuationResult it returns
Valuation(th) ==
    IF IsLastRound(th)
    THEN Bind(LastRoundCompute(th.v.last_post_money, th.last_round_level, th.as_of_level),
              LAMBDA c : Ok([c |-> c,
                             result |-> LastRoundResult(th.request, th.v,
                                                        th.last_round_level,
                                                        th.as_of_level, c)]))
    ELSE Bind(CompsCompute(th.v.revenue, th.selected_multiple, th.v.private_discount_pct),
              LAMBDA c : Ok([c |-> c,
                             result |-> CompsResult(th.request, th.v, th.peers,
                                                    th.selected_multiple, c)]))

\* the rest of valuate: the arithmetic and the ValuationResult, whose
\* request_id is str(uuid4())
Compute(t) ==
    /\ threads[t].pc = "compute"
    /\ \E r \in {Valuation(threads[t])} :
           IF r.ok
           THEN \E id \in UUIDs :
                    threads' = [threads EXCEPT ![t] =
                                   [@ EXCEPT !.pc = "done", !.c = r.val.c,
                                             !.outcome = Ok(r.val.result),
                                             !.request_id = id]]
           ELSE threads' = [threads EXCEPT ![t] = Raise(@, r.err)]
    /\ UNCHANGED shared

\* evaluate_from_dict returns or raises to its caller
Return(t) ==
    /\ threads[t].pc = "done"
    /\ threads' = [threads EXCEPT ![t] = Idle]
    /\ UNCHANGED shared

Step(t) ==
    \/ FromDictStep(t)
    \/ Evaluate(t)
    \/ ValidateInputs(t)
    \/ LookupLastRound(t)
    \/ LookupAsOf(t)
    \/ ResolvePeers(t)
    \/ Aggregate(t)
    \/ Compute(t)

Next == \E t \in Threads : Call(t) \/ Step(t) \/ Return(t)

\* several callers on one engine, each sending the requests of EnginePayloads
Spec == Init /\ [][Next]_vars

(***************************************************************************)
(* One caller and a grid of requests: every combination of the values      *)
(* below, for each methodology                                             *)
(***************************************************************************)
\* the day after d
NextDay(d) ==
    IF d.d < DaysInMonth(d.y, d.m) THEN Date(d.y, d.m, d.d + 1)
    ELSE IF d.m < 12 THEN Date(d.y, d.m + 1, 1)
    ELSE Date(d.y + 1, 1, 1)

\* the day before d
PrevDay(d) ==
    IF d.d > 1 THEN Date(d.y, d.m, d.d - 1)
    ELSE IF d.m > 1 THEN Date(d.y, d.m - 1, DaysInMonth(d.y, d.m - 1))
    ELSE Date(d.y - 1, 12, 31)

RECURSIVE DatePlus(_, _)
\* the date k days after d (before it, for k < 0)
DatePlus(d, k) ==
    IF k = 0 THEN d
    ELSE IF k > 0 THEN DatePlus(NextDay(d), k - 1)
    ELSE DatePlus(PrevDay(d), k + 1)

\* the observations the requested dates lie around: the first, the one of
\* 2024-06-30 and the last
ObsPicks == <<1, 3, 10>>

\* requested dates: up to DateShift days before and after each picked
\* observation date, and a text that is no date
DateValues ==
    [i \in 1..(Len(ObsPicks) * (2 * DateShift + 1)) |->
        JStr(IsoFormat(DatePlus(
            FromIsoFormat(NasdaqLevels[ObsPicks[(i - 1) \div (2 * DateShift + 1) + 1]].key).date,
            ((i - 1) % (2 * DateShift + 1)) - DateShift)))]
    \o <<JStr(Txt(<<"2", "0", "2", "4", "-", "1", "3", "-", "0", "1">>))>>

\* last_post_money_valuation: amounts with no, two and three decimals, ties
\* of the final rounding, a float, and values too large for the quantize
LastPostMoneyValues ==
    <<JInt(0), JIntE(1, 8), JStr(Txt(<<"1", "2", "3", "4", ".", "5", "6", "7">>)), JStr(Txt(<<"1", "2", "3", "4", ".", "5", "6", "5">>)), JStr(Txt(<<"0", ".", "0", "1", "5">>)),
      JFloat(Txt(<<"1", "2", "5", "0", "0", "0", "0", ".", "5">>)), JStr(Txt(<<"I", "n", "f", "i", "n", "i", "t", "y">>)), JIntE(1, 26)>>

\* values parse_decimal or require_field rejects
RejectedAmounts == <<JBool(TRUE), JAbsent, JNull, JStr(Txt(<<"-", "1">>)), JStr(Txt(<<"a", "b", "c">>))>>

\* public_index: absent, a second known index, an unknown one
PublicIndexValues == <<JAbsent, JStr(RUSSELL_2000), JStr(Txt(<<"S", "P", "5", "0", "0">>))>>

RevenueValues ==
    <<JInt(0), JIntE(1, 7), JStr(Txt(<<"0", ".", "0", "5">>)), JFloat(Txt(<<"2", "5", "0", "0", "0", "0", "0", ".", "7", "5">>)), JStr(Txt(<<"I", "n", "f", "i", "n", "i", "t", "y">>))>>

SectorValues == <<JStr(ENTERPRISE_SOFTWARE), JStr(CYBERSECURITY), JStr(Txt(<<"f", "i", "n", "t", "e", "c", "h">>))>>

StatisticValues == <<JAbsent, JStr(MedianName), JStr(MeanName), JStr(Txt(<<"m", "o", "d", "e">>))>>

DiscountValues == <<JAbsent, JInt(0), JInt(20), JStr(Txt(<<"1", "2", ".", "5">>)), JInt(100), JInt(101)>>

\* peer_tickers: absent, empty, one peer, two in mixed case, one unknown, and
\* a text in place of the list
PeerTickerValues ==
    <<JAbsent, JList(<<>>), JList(<<JStr(Txt(<<"N", "E", "T">>))>>),
      JList(<<JStr(Txt(<<"s", "n", "o", "w">>)), JStr(Txt(<<"D", "D", "O", "G">>))>>),
      JList(<<JStr(Txt(<<"S", "N", "O", "W">>)), JStr(Txt(<<"Z", "Z", "Z">>))>>), JStr(Txt(<<"S", "N", "O", "W">>))>>

\* company_name, methodology, inputs and as_of_date as a payload may hold
\* them: well-formed, empty, absent, null and of other types
CompanyNameValues == <<BasisAI, JStr(<<>>), JAbsent, JNull, JInt(7), JBool(TRUE)>>

MethodologyValues == <<JStr(LastRoundName), JAbsent, JNull, JList(<<>>)>>

InputsValues ==
    <<JDict([last_post_money_valuation |-> JInt(100),
             last_round_date |-> JStr(Txt(<<"2", "0", "2", "4", "-", "0", "6", "-", "3", "0">>))]),
      JDict(<<>>), JAbsent, JNull, JList(<<>>), JStr(Txt(<<"n", "o", "t", "-", "a", "-", "d", "i", "c", "t">>))>>

\* as_of_date: a date, absent, null, a number, 30 February, a text that is no
\* date, 29 February of a common and of a leap year, the empty text
AsOfValues ==
    <<JStr(Txt(<<"2", "0", "2", "6", "-", "0", "2", "-", "1", "8">>)), JAbsent, JNull, JInt(20260218), JStr(Txt(<<"2", "0", "2", "6", "-", "0", "2", "-", "3", "0">>)), JStr(Txt(<<"n", "o", "t", "-", "a", "-", "d", "a", "t", "e">>)),
      JStr(Txt(<<"2", "0", "2", "5", "-", "0", "2", "-", "2", "9">>)), JStr(Txt(<<"2", "0", "2", "4", "-", "0", "2", "-", "2", "9">>)), JStr(<<>>)>>

\* revenue_ltm: a valid amount and negative ones of each numeric type
RevenueEdgeValues == <<JIntE(1, 7), JStr(Txt(<<"-", "0", ".", "0", "1">>)), JFloat(Txt(<<"-", "2", ".", "5">>)), JInt(-1)>>

\* statistic: absent, and values of every type that are neither "median" nor
\* "mean"
StatisticEdgeValues ==
    <<JAbsent, JNull, JInt(1), JBool(TRUE), JStr(Txt(<<"M", "E", "D", "I", "A", "N">>)), JStr(<<>>),
      JList(<<JStr(MedianName)>>), JDict(<<>>)>>

\* private_company_discount_pct: absent, negative, boolean, just above 100,
\* within range, infinite, null
DiscountEdgeValues ==
    <<JAbsent, JStr(Txt(<<"-", "1">>)), JFloat(Txt(<<"-", "0", ".", "5">>)), JBool(TRUE), JBool(FALSE), JStr(Txt(<<"1", "0", "0", ".", "0", "1">>)),
      JFloat(Txt(<<"9", "9", ".", "5">>)), JStr(Txt(<<"I", "n", "f", "i", "n", "i", "t", "y">>)), JNull>>

\* peer_tickers: absent, null, values that are no list (falsy and truthy ones
\* of each type), a list with two unknown tickers, a list holding a number
TickerEdgeValues ==
    <<JAbsent, JNull, JStr(<<>>), JInt(0), JBool(FALSE), JDict(<<>>), JInt(5), JBool(TRUE),
      JDict([sector |-> JStr(CYBERSECURITY)]),
      JList(<<JStr(Txt(<<"z", "z", "z">>)), JStr(Txt(<<"S", "N", "O", "W">>)), JStr(Txt(<<"y", "y", "y">>))>>),
      JList(<<JInt(5)>>)>>

\* last_round_date of the requests that probe the staleness tiers: the year
\* after the first holds 29 February, the year after the second does not
RoundDateValues == <<Txt(<<"2", "0", "2", "4", "-", "0", "1", "-", "1", "5">>), Txt(<<"2", "0", "2", "4", "-", "0", "6", "-", "3", "0">>)>>

\* as_of_date of those requests, for each last_round_date: 1 day before it,
\* the same day, and 1, 179, 180, 181, 364, 365, 366 and 367 days after it
StalenessAsOfValues ==
    <<<<Txt(<<"2", "0", "2", "4", "-", "0", "1", "-", "1", "4">>),
        Txt(<<"2", "0", "2", "4", "-", "0", "1", "-", "1", "5">>),
        Txt(<<"2", "0", "2", "4", "-", "0", "1", "-", "1", "6">>),
        Txt(<<"2", "0", "2", "4", "-", "0", "7", "-", "1", "2">>),
        Txt(<<"2", "0", "2", "4", "-", "0", "7", "-", "1", "3">>),
        Txt(<<"2", "0", "2", "4", "-", "0", "7", "-", "1", "4">>),
        Txt(<<"2", "0", "2", "5", "-", "0", "1", "-", "1", "3">>),
        Txt(<<"2", "0", "2", "5", "-", "0", "1", "-", "1", "4">>),
        Txt(<<"2", "0", "2", "5", "-", "0", "1", "-", "1", "5">>),
        Txt(<<"2", "0", "2", "5", "-", "0", "1", "-", "1", "6">>)>>,
      <<Txt(<<"2", "0", "2", "4", "-", "0", "6", "-", "2", "9">>),
        Txt(<<"2", "0", "2", "4", "-", "0", "6", "-", "3", "0">>),
        Txt(<<"2", "0", "2", "4", "-", "0", "7", "-", "0", "1">>),
        Txt(<<"2", "0", "2", "4", "-", "1", "2", "-", "2", "6">>),
        Txt(<<"2", "0", "2", "4", "-", "1", "2", "-", "2", "7">>),
        Txt(<<"2", "0", "2", "4", "-", "1", "2", "-", "2", "8">>),
        Txt(<<"2", "0", "2", "5", "-", "0", "6", "-", "2", "9">>),
        Txt(<<"2", "0", "2", "5", "-", "0", "6", "-", "3", "0">>),
        Txt(<<"2", "0", "2", "5", "-", "0", "7", "-", "0", "1">>),
        Txt(<<"2", "0", "2", "5", "-", "0", "7", "-", "0", "2">>)>>>>

\* peer_tickers naming 1 to 6 companies and all 10; a repeated ticker
PeerCountValues ==
    <<JList(<<JStr(Txt(<<"S", "N", "O", "W">>))>>), JList(<<JStr(Txt(<<"S", "N", "O", "W">>)), JStr(Txt(<<"s", "n", "o", "w">>)), JStr(Txt(<<"S", "n", "o", "w">>))>>),
      JList(<<JStr(Txt(<<"S", "N", "O", "W">>)), JStr(Txt(<<"D", "D", "O", "G">>))>>),
      JList(<<JStr(Txt(<<"S", "N", "O", "W">>)), JStr(Txt(<<"D", "D", "O", "G">>)), JStr(Txt(<<"S">>))>>),
      JList(<<JStr(Txt(<<"S", "N", "O", "W">>)), JStr(Txt(<<"D", "D", "O", "G">>)), JStr(Txt(<<"S">>)), JStr(Txt(<<"N", "E", "T">>))>>),
      JList(<<JStr(Txt(<<"S", "N", "O", "W">>)), JStr(Txt(<<"D", "D", "O", "G">>)), JStr(Txt(<<"S">>)), JStr(Txt(<<"N", "E", "T">>)), JStr(Txt(<<"M", "D", "B">>))>>),
      JList(<<JStr(Txt(<<"S", "N", "O", "W">>)), JStr(Txt(<<"D", "D", "O", "G">>)), JStr(Txt(<<"S">>)), JStr(Txt(<<"N", "E", "T">>)), JStr(Txt(<<"M", "D", "B">>)), JStr(Txt(<<"Z", "S">>))>>),
      JList(<<JStr(Txt(<<"S", "N", "O", "W">>)), JStr(Txt(<<"D", "D", "O", "G">>)), JStr(Txt(<<"M", "D", "B">>)), JStr(Txt(<<"Z", "S">>)), JStr(Txt(<<"S">>)), JStr(Txt(<<"C", "R", "W", "D">>)), JStr(Txt(<<"O", "K", "T", "A">>)), JStr(Txt(<<"N", "E", "T">>)), JStr(Txt(<<"F", "S", "L", "Y">>)), JStr(Txt(<<"E", "S", "T", "C">>))>>)>>

\* inputs of requests that are malformed and also name data the catalogs do
\* not hold
BadRevenueValues == <<JIntE(1, 7), JInt(-1)>>

BadStatisticValues == <<JAbsent, JStr(Txt(<<"m", "o", "d", "e">>)), JList(<<JStr(MedianName)>>)>>

BadDiscountValues == <<JAbsent, JInt(101), JStr(Txt(<<"-", "1">>))>>

BadTickerValues ==
    <<JAbsent, JStr(<<>>), JInt(0), JStr(Txt(<<"S", "N", "O", "W">>)), JList(<<JStr(Txt(<<"Z", "Z", "Z">>))>>), JList(<<JInt(5)>>)>>

BadAmountValues == <<JInt(100), JInt(-1), JBool(TRUE), JStr(Txt(<<"a", "b", "c">>))>>

BadRoundDateValues == <<JStr(Txt(<<"2", "0", "2", "3", "-", "0", "1", "-", "0", "1">>)), JStr(Txt(<<"n", "o", "t", "-", "a", "-", "d", "a", "t", "e">>)), JInt(5), JAbsent>>

LastRoundPayload(amount, last_round_date, public_index, as_of_date) ==
    Payload(BasisAI, JStr(LastRoundName),
            JDict([last_post_money_valuation |-> amount,
                   last_round_date |-> last_round_date,
                   public_index |-> public_index]),
            as_of_date)

CompsPayload(revenue, sector, statistic, discount, tickers) ==
    Payload(BasisAI, JStr(CompsName),
            JDict([revenue_ltm |-> revenue,
                   sector |-> sector,
                   statistic |-> statistic,
                   private_company_discount_pct |-> discount,
                   peer_tickers |-> tickers]),
            JStr(Txt(<<"2", "0", "2", "6", "-", "0", "2", "-", "1", "8">>)))

\* the first caller has entered evaluate_from_dict(payload); input numbers
\* the request within the grid
Started(input, payload) ==
    [t \in Threads |-> IF t = 1 THEN Entered(input, payload) ELSE Idle]

\* a fresh engine and one request of the grid
InitValuations ==
    /\ methodologies = Registry
    /\ index_levels = INDEX_LEVELS
    /\ comps = COMPS
    /\ runs = <<>>
    /\ http = NoRequest
    /\ \/ \E a \in 1..Len(LastPostMoneyValues), b \in 1..Len(DateValues),
             c \in 1..Len(PublicIndexValues), d \in 1..Len(DateValues) :
              threads = Started(1000000 + 100000 * a + 10000 * c + 100 * b + d,
                                LastRoundPayload(LastPostMoneyValues[a], DateValues[b],
                                                 PublicIndexValues[c], DateValues[d]))
       \/ \E a \in 1..Len(RejectedAmounts) :
              threads = Started(2000000 + a,
                                LastRoundPayload(RejectedAmounts[a], DateValues[1],
                                                 JAbsent, DateValues[2]))
       \/ \E a \in 1..Len(RevenueValues), b \in 1..Len(SectorValues),
             c \in 1..Len(StatisticValues), d \in 1..Len(DiscountValues),
             e \in 1..Len(PeerTickerValues) :
              threads = Started(3000000 + 10000 * a + 1000 * b + 100 * c + 10 * d + e,
                                CompsPayload(RevenueValues[a], SectorValues[b],
                                             StatisticValues[c], DiscountValues[d],
                                             PeerTickerValues[e]))
       \/ \E a \in 1..Len(RejectedAmounts), b \in 1..Len(RejectedAmounts) :
              threads = Started(4000000 + 10 * a + b,
                                CompsPayload(RejectedAmounts[a], SectorValues[1], JAbsent,
                                             RejectedAmounts[b], JAbsent))
       \/ \E a \in 1..Len(CompanyNameValues), b \in 1..Len(MethodologyValues),
             c \in 1..Len(InputsValues), d \in 1..Len(AsOfValues) :
              threads = Started(5000000 + 1000 * a + 100 * b + 10 * c + d,
                                Payload(CompanyNameValues[a], MethodologyValues[b],
                                        InputsValues[c], AsOfValues[d]))
       \/ \E a \in 1..Len(RevenueEdgeValues), b \in 1..Len(StatisticEdgeValues),
             c \in 1..Len(DiscountEdgeValues), d \in 1..Len(TickerEdgeValues) :
              threads = Started(6000000 + 100000 * a + 10000 * b + 1000 * c + d,
                                CompsPayload(RevenueEdgeValues[a], SectorValues[1],
                                             StatisticEdgeValues[b], DiscountEdgeValues[c],
                                             TickerEdgeValues[d]))
       \/ \E a \in 1..Len(RoundDateValues), b \in 1..Len(StalenessAsOfValues[1]) :
              threads = Started(9000000 + 100 * a + b,
                                LastRoundPayload(JIntE(1, 8), JStr(RoundDateValues[a]), JAbsent,
                                                 JStr(StalenessAsOfValues[a][b])))
       \/ \E a \in 1..Len(PeerCountValues), b \in 1..Len(SectorValues) :
              threads = Started(10000000 + 100 * a + b,
                                CompsPayload(JIntE(1, 7), SectorValues[b], JAbsent, JAbsent,
                                             PeerCountValues[a]))
       \/ \E a \in 1..Len(BadRevenueValues), b \in 1..Len(BadStatisticValues),
             c \in 1..Len(BadDiscountValues), d \in 1..Len(BadTickerValues) :
              threads = Started(11000000 + 1000 * a + 100 * b + 10 * c + d,
                                CompsPayload(BadRevenueValues[a], SectorValues[3],
                                             BadStatisticValues[b], BadDiscountValues[c],
                                             BadTickerValues[d]))
       \/ \E a \in 1..Len(BadAmountValues), b \in 1..Len(BadRoundDateValues) :
              threads = Started(12000000 + 10 * a + b,
                                LastRoundPayload(BadAmountValues[a], BadRoundDateValues[b],
                                                 PublicIndexValues[3], DateValues[1]))

NextValuations == \E t \in Threads : Step(t)

\* one evaluation of each request of the grid on a fresh engine
SpecValuations == InitValuations /\ [][NextValuations]_vars

(***************************************************************************)
(* Direct calls of the comparable-company provider: a caller lists         *)
(* companies by sector or by tickers and aggregates what it got            *)
(***************************************************************************)
\* sectors of the catalog, one it does not hold, one in another case
ProviderSectors ==
    <<JStr(ENTERPRISE_SOFTWARE), JStr(CYBERSECURITY), JStr(INFRASTRUCTURE_SOFTWARE),
      JStr(Txt(<<"f", "i", "n", "t", "e", "c", "h">>)), JStr(Txt(<<"C", "y", "b", "e", "r", "s", "e", "c", "u", "r", "i", "t", "y">>))>>

\* ticker lists: empty, in either case and mixed, repeated, and with one,
\* two and three tickers of no company
ProviderTickers ==
    <<JList(<<>>), JList(<<JStr(Txt(<<"N", "E", "T">>))>>), JList(<<JStr(Txt(<<"n", "e", "t">>))>>),
      JList(<<JStr(Txt(<<"s", "n", "o", "w">>)), JStr(Txt(<<"D", "D", "O", "G">>))>>), JList(<<JStr(Txt(<<"S", "N", "O", "W">>)), JStr(Txt(<<"s", "n", "o", "w">>))>>),
      JList(<<JStr(Txt(<<"n", "E", "t">>)), JStr(Txt(<<"c", "r", "w", "d">>)), JStr(Txt(<<"O", "k", "t", "a">>))>>), JList(<<JStr(Txt(<<"Z", "z", "z">>))>>),
      JList(<<JStr(Txt(<<"z", "z", "z">>)), JStr(Txt(<<"S", "N", "O", "W">>)), JStr(Txt(<<"y", "y", "y">>))>>),
      JList(<<JStr(Txt(<<"b", "1">>)), JStr(Txt(<<"a", "2">>)), JStr(Txt(<<"M", "D", "B">>)), JStr(Txt(<<"c", "3">>))>>)>>

\* statistics: the two supported ones and texts that are neither
ProviderStatistics ==
    <<MedianName, MeanName, Txt(<<"m", "o", "d", "e">>), Txt(<<"M", "E", "D", "I", "A", "N">>), <<>>,
      Txt(<<"a", "v", "e", "r", "a", "g", "e">>)>>

\* a caller about to call the provider's lookup with argument, and then
\* aggregate_multiple with statistic
ProviderCaller(i, lookup, argument, statistic) ==
    [Idle EXCEPT !.pc = "list_companies", !.input = i,
                 !.v = [lookup |-> lookup, argument |-> argument,
                        statistic |-> statistic]]

InitProviders ==
    /\ methodologies = Registry
    /\ index_levels = INDEX_LEVELS
    /\ comps = COMPS
    /\ runs = <<>>
    /\ http = NoRequest
    /\ \E c \in 1..Len(ProviderStatistics) :
           \/ \E a \in 1..Len(ProviderSectors) :
                  threads = [t \in Threads |->
                      IF t = 1
                      THEN ProviderCaller(7000000 + 100 * a + c, "list_by_sector",
                                          ProviderSectors[a], ProviderStatistics[c])
                      ELSE Idle]
           \/ \E b \in 1..Len(ProviderTickers) :
                  threads = [t \in Threads |->
                      IF t = 1
                      THEN ProviderCaller(8000000 + 100 * b + c, "list_by_tickers",
                                          ProviderTickers[b], ProviderStatistics[c])
                      ELSE Idle]

\* comps_source.list_by_sector(sector)
ListBySector(t) ==
    /\ threads[t].pc = "list_companies"
    /\ threads[t].v.lookup = "list_by_sector"
    /\ \E r \in {list_by_sector(comps, threads[t].v.argument.v)} :
           /\ threads' = [threads EXCEPT ![t] =
                  Advance(Calling(@, "list_by_sector"), r,
                          LAMBDA found : [Calling(threads[t], "list_by_sector")
                                              EXCEPT !.pc = "aggregate_companies",
                                                     !.peers = found])]
           /\ comps' = IF r.ok THEN CatalogAfterLookup(comps, r.val) ELSE comps
    /\ UNCHANGED <<methodologies, index_levels, runs, http>>

\* comps_source.list_by_tickers(tickers)
ListByTickers(t) ==
    /\ threads[t].pc = "list_companies"
    /\ threads[t].v.lookup = "list_by_tickers"
    /\ \E r \in {list_by_tickers(comps, threads[t].v.argument.v)} :
           /\ threads' = [threads EXCEPT ![t] =
                  Advance(Calling(@, "list_by_tickers"), r,
                          LAMBDA found : [Calling(threads[t], "list_by_tickers")
                                              EXCEPT !.pc = "aggregate_companies",
                                                     !.peers = found])]
           /\ comps' = IF r.ok THEN CatalogAfterLookup(comps, r.val) ELSE comps
    /\ UNCHANGED <<methodologies, index_levels, runs, http>>

\* comps_source.aggregate_multiple(companies, statistic) on what the lookup
\* returned
AggregateMultiple(t) ==
    /\ threads[t].pc = "aggregate_companies"
    /\ threads' = [threads EXCEPT ![t] =
           Advance(Calling(@, "aggregate_multiple"),
                   aggregate_multiple(@.peers, @.v.statistic),
                   LAMBDA multiple :
                       [Calling(threads[t], "aggregate_multiple")
                            EXCEPT !.pc = "done",
                                   !.selected_multiple = multiple,
                                   !.outcome = Ok(multiple)])]
    /\ UNCHANGED shared

NextProviders ==
    \E t \in Threads : ListBySector(t) \/ ListByTickers(t) \/ AggregateMultiple(t)

\* one lookup and one aggregation for each choice of arguments
SpecProviders == InitProviders /\ [][NextProviders]_vars

(***************************************************************************)
(* models.py: the serialized envelope                                      *)
(***************************************************************************)
\* significant decimal digits that tell any two binary64 values apart
FloatDigits == 17

\* the greatest decimal exponent of a finite binary64 value
FloatMaxExp == 308

RECURSIVE DNormal(_)
\* the value without trailing zeros in its coefficient
DNormal(x) ==
    IF NIsZero(x.c) THEN DFin(x.s, <<0>>, 0)
    ELSE IF x.c[Len(x.c)] = 0
    THEN DNormal(DFin(x.s, SubSeq(x.c, 1, Len(x.c) - 1), x.e + 1))
    ELSE x

\* a finite value rounded to FloatDigits significant digits, ties to even
DRoundFloat(x) ==
    IF Len(x.c) <= FloatDigits THEN x
    ELSE With(IF RoundHalfEven(x.c, FloatDigits) > 0
              THEN NAdd(SubSeq(x.c, 1, FloatDigits), <<1>>)
              ELSE SubSeq(x.c, 1, FloatDigits),
              LAMBDA coeff : DFin(x.s, coeff, Len(x.c) + x.e - FloatDigits))

\* float(x) of a Decimal, held by its value: inf beyond the binary64 range,
\* and otherwise the value to FloatDigits digits.  (A magnitude between the
\* greatest binary64 value and 10^309 is taken as finite, and underflow to
\* zero is left out.)
PyFloat(x) ==
    [t |-> "float",
     v |-> IF x.k # "fin" THEN x
           ELSE IF ~NIsZero(x.c) /\ Len(x.c) + x.e - 1 > FloatMaxExp THEN DInf(x.s)
           ELSE DNormal(DRoundFloat(x))]

\* MonetaryAmount.to_dict
MonetaryAmountToDict(amount) ==
    PyDict([amount |-> PyFloat(amount), currency |-> JStr("USD")])

\* inputs_used as valuate builds it (last_round.py, lines 88-94; comps.py,
\* lines 99-112): the Decimals as floats
InputsUsedToDict(result) ==
    IF result.methodology = LastRoundName
    THEN PyDict([last_post_money_valuation |->
                     PyFloat(result.inputs_used.last_post_money_valuation),
                 last_round_date |-> JStr(result.inputs_used.last_round_date),
                 public_index |-> result.inputs_used.public_index,
                 index_level_last_round |->
                     PyFloat(result.inputs_used.index_level_last_round),
                 index_level_as_of_date |->
                     PyFloat(result.inputs_used.index_level_as_of_date)])
    ELSE PyDict([revenue_ltm |-> PyFloat(result.inputs_used.revenue_ltm),
                 sector |-> JStr(result.inputs_used.sector),
                 statistic |-> JStr(result.inputs_used.statistic),
                 peer_companies |->
                     JList([i \in 1..Len(result.inputs_used.peer_companies) |->
                         PyDict([ticker |->
                                     JStr(result.inputs_used.peer_companies[i].ticker),
                                 company_name |->
                                     JStr(result.inputs_used.peer_companies[i].company_name),
                                 ev_to_revenue |->
                                     PyFloat(result.inputs_used.peer_companies[i].ev_to_revenue)])]),
                 private_company_discount_pct |->
                     PyFloat(result.inputs_used.private_company_discount_pct)])

\* confidence_indicators as valuate builds it, without the two figures
\* computed in binary floating point (absolute_index_change_pct,
\* multiple_spread) and the fixed data_source_type
ConfidenceToDict(result) ==
    IF result.methodology = LastRoundName
    THEN PyDict([days_since_last_round |->
                     JInt(result.confidence_indicators.days_since_last_round),
                 index_data_freshness_gap_days |->
                     JInt(result.confidence_indicators.index_data_freshness_gap_days),
                 staleness_risk |-> JStr(result.confidence_indicators.staleness_risk)])
    ELSE PyDict([peer_count |-> JInt(result.confidence_indicators.peer_count),
                 peer_set_quality |-> JStr(result.confidence_indicators.peer_set_quality)])

\* str(uuid4()) of the id-th UUID
UuidText(id) == DigitsTxt(NFromInt(id))

\* datetime.now(timezone.utc).replace(microsecond=0).isoformat() at the two
\* instants a result is stamped at
GeneratedAtValues ==
    <<Txt(<<"2", "0", "2", "6", "-", "0", "2", "-", "1", "8", "T", "0", "0", ":", "0", "0", ":", "0", "0", "+", "0", "0", ":", "0", "0">>),
      Txt(<<"2", "0", "2", "6", "-", "0", "2", "-", "1", "8", "T", "0", "0", ":", "0", "0", ":", "0", "1", "+", "0", "0", ":", "0", "0">>)>>

\* vc_audit_tool.__version__, the default of engine_version
EngineVersion == Txt(<<"0", ".", "1", ".", "0">>)

\* ValuationResult.to_dict of a result with this request_id and timestamp,
\* without the assumptions and derivation_steps texts
ToDict(result, request_id, generated_at_utc) ==
    PyDict([valuation_result |->
                PyDict([company_name |-> JStr(result.company_name),
                        methodology |-> JStr(result.methodology),
                        as_of_date |-> JStr(IsoFormat(result.as_of_date)),
                        estimated_fair_value |->
                            MonetaryAmountToDict(result.estimated_fair_value),
                        inputs_used |-> InputsUsedToDict(result),
                        citations |-> JList([i \in 1..Len(result.citations) |->
                                                CitationToDict(result.citations[i])]),
                        confidence_indicators |-> ConfidenceToDict(result)]),
            audit_metadata |->
                PyDict([request_id |-> JStr(request_id),
                        generated_at_utc |-> JStr(generated_at_utc),
                        engine_version |-> JStr(EngineVersion)])])

(***************************************************************************)
(* json: documents as json.dumps writes them and json.loads reads them     *)
(***************************************************************************)
JsonTypes == {"null", "bool", "int", "float", "str", "list", "tuple", "dict"}

RECURSIVE JsonSerializable(_)
\* json.dumps has an encoding for every value within x
JsonSerializable(x) ==
    /\ x.t \in JsonTypes
    /\ x.t \in {"list", "tuple", "dict"} => \A k \in DOMAIN x.v : JsonSerializable(x.v[k])

RECURSIVE HasNonFinite(_)
\* some float within x is inf, -inf or nan
HasNonFinite(x) ==
    \/ x.t = "float" /\ x.v.k # "fin"
    \/ x.t \in {"list", "tuple", "dict"} /\ \E k \in DOMAIN x.v : HasNonFinite(x.v[k])

RECURSIVE JsonDocument(_)
\* the document of a serializable value: a tuple is written as an array, and
\* every other value as itself
JsonDocument(x) ==
    IF x.t \in {"list", "tuple"}
    THEN [t |-> "list", v |-> [i \in 1..Len(x.v) |-> JsonDocument(x.v[i])]]
    ELSE IF x.t = "dict"
    THEN [t |-> "dict", v |-> [k \in DOMAIN x.v |-> JsonDocument(x.v[k])]]
    ELSE x

\* json.dumps(x, allow_nan=allow_nan)
JsonDumps(x, allow_nan) ==
    IF ~JsonSerializable(x) THEN Fail(OtherError("TypeError", "not_json_serializable"))
    ELSE IF ~allow_nan /\ HasNonFinite(x)
    THEN Fail(OtherError("ValueError", "out_of_range_float"))
    ELSE Ok(JsonDocument(x))

\* json.loads of a document json.dumps wrote: arrays are lists, Infinity is inf
JsonLoads(document) == document

(***************************************************************************)
(* store.py: ValuationStore                                                *)
(***************************************************************************)
\* the row that save inserts, lines 30-47
RunRow(result_dict, payload) ==
    [request_id |-> result_dict.v.audit_metadata.v.request_id,
     company_name |-> result_dict.v.valuation_result.v.company_name,
     methodology |-> result_dict.v.valuation_result.v.methodology,
     as_of_date |-> result_dict.v.valuation_result.v.as_of_date,
     fair_value |-> result_dict.v.valuation_result.v.estimated_fair_value.v.amount,
     generated_at_utc |-> result_dict.v.audit_metadata.v.generated_at_utc,
     payload |-> payload]

\* save that replaces the stored run of the same request_id (a variant of
\* save)
save_or_replace(rows, result_dict) ==
    Bind(JsonDumps(result_dict, TRUE), LAMBDA payload :
        Ok([rows |-> SelectSeq(rows, LAMBDA r :
                         r.request_id # result_dict.v.audit_metadata.v.request_id)
                     \o <<RunRow(result_dict, payload)>>,
            returned |-> result_dict.v.audit_metadata.v.request_id]))

\* save(result_dict), lines 28-50, on a table with these rows in rowid order:
\* request_id is the primary key, so a second row with a stored request_id
\* raises sqlite3.IntegrityError and nothing is committed
save(rows, result_dict) ==
    Bind(JsonDumps(result_dict, TRUE), LAMBDA payload :
        IF \E i \in 1..Len(rows) :
               rows[i].request_id = result_dict.v.audit_metadata.v.request_id
        THEN Fail(OtherError("IntegrityError", "unique_request_id"))
        ELSE Ok([rows |-> Append(rows, RunRow(result_dict, payload)),
                 returned |-> result_dict.v.audit_metadata.v.request_id]))

\* dict(row) of the six columns list_runs selects
RunSummary(row) ==
    PyDict([request_id |-> row.request_id,
            company_name |-> row.company_name,
            methodology |-> row.methodology,
            as_of_date |-> row.as_of_date,
            fair_value |-> row.fair_value,
            generated_at_utc |-> row.generated_at_utc])

\* the rows in rowid order, oldest first (a variant of list_runs)
list_runs_oldest_first(rows, limit) ==
    JList([i \in 1..(IF limit < 0 THEN Len(rows) ELSE Min(limit, Len(rows))) |->
              RunSummary(rows[i])])

\* list_runs(limit), lines 52-62: ORDER BY rowid DESC LIMIT ?, where SQLite
\* takes a negative limit as no limit
list_runs(rows, limit) ==
    JList([i \in 1..(IF limit < 0 THEN Len(rows) ELSE Min(limit, Len(rows))) |->
              RunSummary(rows[Len(rows) + 1 - i])])

\* the default of list_runs' limit
DefaultLimit == 50

\* get_run(request_id), lines 64-74
get_run(rows, request_id) ==
    IF \E i \in 1..Len(rows) : rows[i].request_id = JStr(request_id)
    THEN JsonLoads(rows[CHOOSE i \in 1..Len(rows) :
                            rows[i].request_id = JStr(request_id)].payload)
    ELSE JNull

(***************************************************************************)
(* server.py and web.py: the two HTTP adapters over one engine and one     *)
(* store.  A handler runs from its first line to its last in one step: the *)
(* evaluation shares nothing that changes, and each store call is one      *)
(* statement on the one connection.                                        *)
(***************************************************************************)
Adapters == {"server", "web"}

\* a request body: a JSON object, a JSON array, a text that is no JSON, or
\* bytes that are no UTF-8
ObjectBody(payload) == [kind |-> "object", doc |-> payload]

ArrayBody == [kind |-> "array", doc |-> None]

TextBody == [kind |-> "text", doc |-> None]

BytesBody == [kind |-> "bytes", doc |-> None]

\* the bodies posted: the last-round scenario, a payload without
\* company_name, a sector without peers, a peer list holding a number, a
\* comparable-companies request whose revenue is beyond the float range
\* under a discount of 100, and the three bodies that are no JSON object
Bodies ==
    <<ObjectBody(Scenario_A),
      ObjectBody(Payload(JAbsent, JStr(LastRoundName), Scenario_A.inputs, Scenario_A.as_of_date)),
      ObjectBody(CompsPayload(JIntE(1, 7), SectorValues[3], JAbsent, JAbsent, JAbsent)),
      ObjectBody(CompsPayload(JIntE(1, 7), SectorValues[1], JAbsent, JAbsent,
                              JList(<<JInt(5)>>))),
      ObjectBody(CompsPayload(JStr(Txt(<<"1", "e", "4", "0", "0">>)), SectorValues[1],
                              JAbsent, JInt(100), JAbsent)),
      ArrayBody,
      TextBody,
      BytesBody>>

\* the run ids asked for: every UUID's text and one that is nobody's
RunIds == {UuidText(id) : id \in UUIDs} \cup {Txt(<<"d", "o", "e", "s", "-", "n", "o", "t", "-", "e", "x", "i", "s", "t">>)}

\* the limits a caller of the store passes to list_runs
Limits == (0 - 1)..(NUuid + 1)

\* a request whose handler has not run yet
Received(adapter, method, route) ==
    [NoRequest EXCEPT !.pc = "received", !.adapter = adapter, !.method = method,
                      !.route = route]

\* the handler has answered
Replied(request, status, reply) ==
    [request EXCEPT !.pc = "replied", !.status = status, !.reply = reply]

\* {"error": str(exc)}
ErrorBody(exc) == PyDict([error |-> exc])

\* {"error": f"Invalid JSON: {exc}"}
InvalidJsonBody(exc) == PyDict([error |-> exc, invalid_json |-> JBool(TRUE)])

NotFound == OtherError("HTTPStatus", "not_found")

RunNotFound == OtherError("HTTPStatus", "run_not_found")

\* server.py, _read_json: json.loads(body) of the raw bytes
ReadJson(body) ==
    IF body.kind = "bytes" THEN Fail(OtherError("UnicodeDecodeError", "invalid_utf8"))
    ELSE IF body.kind = "text" THEN Fail(OtherError("JSONDecodeError", "invalid_json"))
    ELSE Ok(body)

\* engine.evaluate_from_dict(payload) of a parsed body: payload.get of a
\* value that is no dict raises AttributeError (validation.py, line 13)
EvaluateBody(registry, levels, catalog, body) ==
    IF body.kind # "object" THEN Fail(OtherError("AttributeError", "no_attribute_get"))
    ELSE evaluate_from_dict(registry, levels, catalog, body.doc)

\* the response to an exception by the except clauses of _run_valuation
\* (server.py, lines 70-75) and of do_POST (web.py, lines 416-421)
ErrorResponse(rows, exc) ==
    [status |-> IF exc.kind \in {"ValidationError", "DataSourceError"} THEN 400 ELSE 500,
     reply |-> ErrorBody(exc), rows |-> rows]

\* lines 59-60 of server.py and line 402 of web.py
Persist(rows, result_dict, persist) ==
    IF persist THEN save(rows, result_dict)
    ELSE Ok([rows |-> rows, returned |-> None])

\* starlette's JSONResponse.render: json.dumps(content, allow_nan=False)
JSONResponse(content) == JsonDumps(content, FALSE)

\* web.py, _write_json: json.dumps(payload)
WriteJson(payload) == JsonDumps(payload, TRUE)

\* the body of the try of _run_valuation (server.py, lines 56-69) and of
\* do_POST after the body is parsed (web.py, lines 399-415), for a result
\* stamped with this request_id and timestamp.  In server.py the response
\* is built inside the try, after the save.
RunValuation(adapter, rows, evaluation, persist, request_id, generated_at_utc) ==
    IF ~evaluation.ok THEN ErrorResponse(rows, evaluation.err)
    ELSE With(ToDict(evaluation.val, request_id, generated_at_utc), LAMBDA result_dict :
         With(Persist(rows, result_dict, persist), LAMBDA saved :
             IF ~saved.ok THEN ErrorResponse(rows, saved.err)
             ELSE With(IF adapter = "server" THEN JSONResponse(result_dict)
                       ELSE WriteJson(result_dict),
                       LAMBDA response :
                           IF ~response.ok THEN ErrorResponse(saved.val.rows, response.err)
                           ELSE [status |-> 200, reply |-> response.val,
                                 rows |-> saved.val.rows])))

\* server.py: post_value (persist = FALSE) and api_value (persist = TRUE),
\* where every failure to read the body is answered with 400
ServerValue(rows, registry, levels, catalog, body, persist, request_id, generated_at_utc) ==
    With(ReadJson(body), LAMBDA payload :
        IF ~payload.ok
        THEN [status |-> 400, reply |-> InvalidJsonBody(payload.err), rows |-> rows]
        ELSE RunValuation("server", rows, EvaluateBody(registry, levels, catalog, body),
                          persist, request_id, generated_at_utc))

\* web.py, do_POST for /api/value: only json.JSONDecodeError is answered as
\* invalid JSON; body.decode("utf-8") raising UnicodeDecodeError goes to
\* the last except clause
WebValue(rows, registry, levels, catalog, body, request_id, generated_at_utc) ==
    With(ReadJson(body), LAMBDA payload :
        IF ~payload.ok
        THEN IF payload.err.kind = "JSONDecodeError"
             THEN [status |-> 400, reply |-> InvalidJsonBody(payload.err), rows |-> rows]
             ELSE ErrorResponse(rows, payload.err)
        ELSE RunValuation("web", rows, EvaluateBody(registry, levels, catalog, body),
                          TRUE, request_id, generated_at_utc))

\* the engine, the store and no request; nobody calls the engine directly
InitAdapters ==
    /\ methodologies = Registry
    /\ index_levels = INDEX_LEVELS
    /\ comps = COMPS
    /\ runs = <<>>
    /\ http = NoRequest
    /\ threads = [t \in Threads |-> Idle]

\* a client sends a request, or a caller of the store is about to call
\* list_runs(limit)
Receive ==
    /\ http.pc = "idle"
    /\ \/ \E a \in Adapters, r \in {"/value", "/api/value"}, b \in 1..Len(Bodies) :
              http' = [Received(a, "POST", r) EXCEPT !.body = Bodies[b]]
       \/ \E a \in Adapters, r \in {"/health", "/api/runs", "/nowhere"} :
              http' = Received(a, "GET", r)
       \/ \E a \in Adapters, id \in RunIds :
              http' = [Received(a, "GET", "/api/runs/{run_id}") EXCEPT !.run_id = id]
       \/ \E limit \in Limits :
              http' = [Received("store", "list_runs", "") EXCEPT !.limit = limit]
    /\ UNCHANGED <<methodologies, index_levels, comps, threads, runs>>

\* POST /value: server.py post_value; web.py answers every POST path other
\* than /api/value with 404
PostValue ==
    /\ http.pc = "received" /\ http.method = "POST" /\ http.route = "/value"
    /\ \E id \in UUIDs, now \in 1..Len(GeneratedAtValues) :
       \E r \in {IF http.adapter = "web"
                 THEN [status |-> 404, reply |-> ErrorBody(NotFound), rows |-> runs]
                 ELSE ServerValue(runs, methodologies, index_levels, comps, http.body,
                                  FALSE, UuidText(id), GeneratedAtValues[now])} :
           /\ http' = Replied(http, r.status, r.reply)
           /\ runs' = r.rows
    /\ UNCHANGED <<methodologies, index_levels, comps, threads>>

\* POST /api/value: server.py api_value, web.py do_POST
ApiValue ==
    /\ http.pc = "received" /\ http.method = "POST" /\ http.route = "/api/value"
    /\ \E id \in UUIDs, now \in 1..Len(GeneratedAtValues) :
       \E r \in {IF http.adapter = "web"
                 THEN WebValue(runs, methodologies, index_levels, comps, http.body,
                               UuidText(id), GeneratedAtValues[now])
                 ELSE ServerValue(runs, methodologies, index_levels, comps, http.body,
                                  TRUE, UuidText(id), GeneratedAtValues[now])} :
           /\ http' = Replied(http, r.status, r.reply)
           /\ runs' = r.rows
    /\ UNCHANGED <<methodologies, index_levels, comps, threads>>

\* GET /health, and in web.py every GET path that is no route
Health ==
    /\ http.pc = "received" /\ http.method = "GET"
    /\ http.route \in {"/health", "/nowhere"}
    /\ http' = IF http.route = "/health"
               THEN Replied(http, 200, PyDict([status |-> JStr("ok")]))
               ELSE Replied(http, 404, ErrorBody(NotFound))
    /\ UNCHANGED <<methodologies, index_levels, comps, threads, runs>>

\* GET /api/runs: store.list_runs() with the default limit
ApiRuns ==
    /\ http.pc = "received" /\ http.method = "GET" /\ http.route = "/api/runs"
    /\ \E r \in {IF http.adapter = "server" THEN JSONResponse(list_runs(runs, DefaultLimit))
                 ELSE WriteJson(list_runs(runs, DefaultLimit))} :
           http' = IF r.ok THEN Replied(http, 200, r.val)
                   ELSE Replied(http, 500, ErrorBody(r.err))
    /\ UNCHANGED <<methodologies, index_levels, comps, threads, runs>>

\* GET /api/runs/{run_id}: 404 when get_run returns None.  In server.py a
\* run that JSONResponse cannot render leaves the route as an exception,
\* which the framework answers with 500.
ApiRunDetail ==
    /\ http.pc = "received" /\ http.method = "GET" /\ http.route = "/api/runs/{run_id}"
    /\ \E run \in {get_run(runs, http.run_id)} :
       \E r \in {IF http.adapter = "server" THEN JSONResponse(run) ELSE WriteJson(run)} :
           http' = IF run = JNull THEN Replied(http, 404, ErrorBody(RunNotFound))
                   ELSE IF r.ok THEN Replied(http, 200, r.val)
                   ELSE Replied(http, 500, ErrorBody(r.err))
    /\ UNCHANGED <<methodologies, index_levels, comps, threads, runs>>

\* a caller of the store calls list_runs(limit)
ListRuns ==
    /\ http.pc = "received" /\ http.method = "list_runs"
    /\ http' = Replied(http, 0, list_runs(runs, http.limit))
    /\ UNCHANGED <<methodologies, index_levels, comps, threads, runs>>

\* the response is sent and the next request may come
Close ==
    /\ http.pc = "replied"
    /\ http' = NoRequest
    /\ UNCHANGED <<methodologies, index_levels, comps, threads, runs>>

NextAdapters ==
    \/ Receive
    \/ PostValue
    \/ ApiValue
    \/ Health
    \/ ApiRuns
    \/ ApiRunDetail
    \/ ListRuns
    \/ Close

\* the requests of both adapters, taken one at a time
SpecAdapters == InitAdapters /\ [][NextAdapters]_vars

(***************************************************************************)
(* What the specification says of the engine                               *)
(***************************************************************************)
Done(t) == threads[t].pc = "done"

Succeeded(t) == Done(t) /\ threads[t].outcome.ok

FairValue(t) == threads[t].outcome.val.estimated_fair_value

\* the request's input under key, as the caller wrote it
RawInput(t, key) == threads[t].payload.inputs.v[key]

\* the amount the caller wrote under key
AmountInput(t, key) == DParse(PyStr(RawInput(t, key)))

\* |a - b| for naturals
NDist(a, b) == IF NCmp(a, b) >= 0 THEN NSub(a, b) ELSE NSub(b, a)

\* r is a number of cents and no cent value is nearer to the non-negative x:
\* 2 * |r - x| <= 0.01, compared exactly at the lower exponent
NearestCent(r, x) ==
    /\ r.k = "fin" /\ x.k = "fin" /\ r.e = -2
    /\ LET e == Min(-2, x.e)
       IN  NCmp(NMul(<<2>>, NDist(NShl(r.c, -2 - e), NShl(x.c, x.e - e))),
                NShl(<<1>>, -2 - e)) <= 0

\* the observations of the index named name, as the catalog lists them
Observations(name) == SelectSeq(INDEX_LEVELS, LAMBDA e : e.name = name)[1].history

ObservedOn(o) == FromIsoFormat(o.key).date

KnownIndex(x) == x.t = "str" /\ \E i \in 1..Len(INDEX_LEVELS) : INDEX_LEVELS[i].name = x.v

\* some observation of the index is dated on or before d
ObservedBy(name, d) ==
    \E i \in 1..Len(Observations(name)) : DateLE(ObservedOn(Observations(name)[i]), d)

\* the observation with the greatest date on or before d
ClosestPrior(name, d) ==
    LET h == Observations(name)
    IN  h[CHOOSE i \in 1..Len(h) :
              /\ DateLE(ObservedOn(h[i]), d)
              /\ \A j \in 1..Len(h) :
                     DateLE(ObservedOn(h[j]), d) => DateLE(ObservedOn(h[j]), ObservedOn(h[i]))]

\* evaluate_from_dict(payload) on an engine nobody else has used
FreshEvaluation(payload) == evaluate_from_dict(Registry, INDEX_LEVELS, COMPS, payload)

FreshOutcome == [i \in 1..Len(EnginePayloads) |-> FreshEvaluation(EnginePayloads[i])]

\* C1: whatever the callers of one engine have done and are doing, each
\* finished evaluation has the outcome (valuation_result or exception) that
\* the same request has on a fresh engine, and the registry and both catalogs
\* are as the constructor left them.
C1_DeterministicUnderInterleaving ==
    /\ methodologies = Registry
    /\ index_levels = INDEX_LEVELS
    /\ comps = COMPS
    /\ \A t \in Threads :
           Done(t) => threads[t].outcome = FreshOutcome[threads[t].input]

\* two callers have finished the same request with success while sharing the
\* engine, with different request ids
C1_Witness ==
    \E t1, t2 \in Threads :
        /\ t1 # t2
        /\ Succeeded(t1) /\ Succeeded(t2)
        /\ threads[t1].input = threads[t2].input
        /\ threads[t1].request_id # threads[t2].request_id

\* the names the unknown-methodology message must list
SortedRegisteredNames == Txt(<<"c", "o", "m", "p", "a", "r", "a", "b", "l", "e", "_", "c", "o", "m", "p", "a", "n", "i", "e", "s", ",", " ", "l", "a", "s", "t", "_", "r", "o", "u", "n", "d", "_", "m", "a", "r", "k", "e", "t", "_", "a", "d", "j", "u", "s", "t", "e", "d">>)

\* the caller has passed evaluate's lookup
PastDispatch(t) ==
    /\ threads[t].pc \notin {"idle", "from_dict", "evaluate"}
    /\ FromDict(threads[t].payload).ok

\* C3: a request whose methodology is not registered ends in a
\* ValidationError that lists the registered names in sorted order, without
\* any methodology or provider having been invoked; a registered name is
\* delegated to the methodology registered under it, with the request as it
\* was, and what that methodology returns is the result.
C3_DispatchByName ==
    \A t \in Threads :
        PastDispatch(t) =>
            LET th == threads[t]
            IN  IF th.request.methodology \notin {LastRoundName, CompsName}
                THEN /\ Done(t) /\ ~th.outcome.ok
                     /\ th.outcome.err.kind = "ValidationError"
                     /\ th.outcome.err.code = "unknown_methodology"
                     /\ th.outcome.err.args = <<th.request.methodology, SortedRegisteredNames>>
                     /\ th.delegate = "" /\ th.calls = <<>>
                ELSE /\ th.delegate = (IF th.request.methodology = LastRoundName
                                       THEN "LastRoundMarketAdjustedMethodology"
                                       ELSE "ComparableCompaniesMethodology")
                     /\ th.request = FromDict(th.payload).val
                     /\ Succeeded(t) =>
                            /\ th.outcome.val.methodology = th.request.methodology
                            /\ th.outcome.val = Valuation(th).val.result

\* one caller has got the unknown-methodology error while another has got a
\* result from the methodology it named
C3_Witness ==
    \E t1, t2 \in Threads :
        /\ Done(t1) /\ ~threads[t1].outcome.ok
        /\ threads[t1].outcome.err.code = "unknown_methodology"
        /\ Succeeded(t2) /\ threads[t2].delegate = "ComparableCompaniesMethodology"

\* the index the request names, NASDAQ_COMPOSITE when it names none
IndexInput(t) ==
    IF RawInput(t, "public_index").t = "absent"
    THEN [t |-> "str", v |-> NASDAQ_COMPOSITE]
    ELSE RawInput(t, "public_index")

\* the k-th get_level call of a last-round evaluation asks for this date
LookupDate(t, k) ==
    FromIsoFormat(IF k = 1 THEN RawInput(t, "last_round_date").v
                           ELSE threads[t].payload.as_of_date.v).date

LookupPoint(t, k) == IF k = 1 THEN threads[t].last_round_level ELSE threads[t].as_of_level

\* the caller has made its k-th get_level call
Looked(t, k) == IsLastRound(threads[t]) /\ Len(threads[t].calls) >= k

\* the k-th get_level call raised
LookupRaised(t, k) ==
    /\ Done(t) /\ ~threads[t].outcome.ok
    /\ Len(threads[t].calls) = k
    /\ threads[t].outcome.err.kind # "InvalidOperation"

\* C4: get_level(index, as_of_date) returns the observation of that index
\* with the greatest date on or before as_of_date, and raises DataSourceError
\* when the index is unknown or every observation is later than as_of_date.
C4_ClosestPriorLevel ==
    \A t \in Threads : \A k \in {1, 2} :
        Looked(t, k) =>
            IF KnownIndex(IndexInput(t)) /\ ObservedBy(IndexInput(t).v, LookupDate(t, k))
            THEN /\ ~LookupRaised(t, k)
                 /\ LookupPoint(t, k).as_of_date
                        = ObservedOn(ClosestPrior(IndexInput(t).v, LookupDate(t, k)))
                 /\ LookupPoint(t, k).level
                        = ClosestPrior(IndexInput(t).v, LookupDate(t, k)).level
            ELSE /\ LookupRaised(t, k)
                 /\ threads[t].outcome.err.kind = "DataSourceError"

\* both lookups of one evaluation are done: the first asked for an observed
\* date, the second fell back to an earlier observation
C4_Witness ==
    \E t \in Threads :
        /\ threads[t].pc = "compute" /\ IsLastRound(threads[t])
        /\ threads[t].last_round_level.as_of_date = LookupDate(t, 1)
        /\ threads[t].as_of_level.as_of_date # LookupDate(t, 2)

LastRoundSucceeded(t) == Succeeded(t) /\ IsLastRound(threads[t])

CompsSucceeded(t) == Succeeded(t) /\ ~IsLastRound(threads[t])

\* the level of the request's index on the closest prior date to d
LevelOn(t, d) == ClosestPrior(IndexInput(t).v, d).level

\* last_post_money_valuation * (1 + (L_as_of / L_round - 1)), before rounding
MarketAdjusted(t) ==
    DMul(AmountInput(t, "last_post_money_valuation"),
         DAdd(DInt(1), DSub(DDiv(LevelOn(t, LookupDate(t, 2)), LevelOn(t, LookupDate(t, 1))),
                            DInt(1))))

\* C5: a successful last_round_market_adjusted evaluation has the fair value
\* last_post_money_valuation * (1 + (L_as_of / L_round - 1)) to 2 decimal
\* places, where the two levels are looked up independently on the closest
\* prior dates to as_of_date and last_round_date, in the index the request
\* names or NASDAQ_COMPOSITE when it names none.
C5_LastRoundFairValue ==
    \A t \in Threads :
        LastRoundSucceeded(t) => NearestCent(FairValue(t), MarketAdjusted(t))

\* a success with the default index where both lookups fell back to different
\* earlier observations and the value moved
C5_Witness ==
    \E t \in Threads :
        /\ LastRoundSucceeded(t)
        /\ RawInput(t, "public_index").t = "absent"
        /\ threads[t].last_round_level.as_of_date # LookupDate(t, 1)
        /\ threads[t].as_of_level.as_of_date # LookupDate(t, 2)
        /\ threads[t].last_round_level.as_of_date # threads[t].as_of_level.as_of_date
        /\ DCmp(FairValue(t), AmountInput(t, "last_post_money_valuation")) # 0

\* the discount the request asks for, 0 when it names none
DiscountInput(t) ==
    IF RawInput(t, "private_company_discount_pct").t = "absent" THEN DInt(0)
    ELSE AmountInput(t, "private_company_discount_pct")

\* peer_tickers is a non-empty list
TickersGiven(t) ==
    RawInput(t, "peer_tickers").t = "list" /\ RawInput(t, "peer_tickers").v # <<>>

\* the catalog's companies the request's peer rule selects
PeerGroup(t) ==
    IF TickersGiven(t)
    THEN SelectSeq(COMPS, LAMBDA c :
             \E i \in 1..Len(RawInput(t, "peer_tickers").v) :
                 StrUpper(RawInput(t, "peer_tickers").v[i].v) = c.ticker)
    ELSE SelectSeq(COMPS, LAMBDA c : c.sector = RawInput(t, "sector").v)

Multiples(peers) == [i \in 1..Len(peers) |-> peers[i].ev_to_revenue]

\* the r-th smallest of xs: fewer than r are below it, at least r not above
KthSmallest(xs, r) ==
    xs[CHOOSE i \in 1..Len(xs) :
           /\ Cardinality({j \in 1..Len(xs) : DCmp(xs[j], xs[i]) < 0}) < r
           /\ Cardinality({j \in 1..Len(xs) : DCmp(xs[j], xs[i]) <= 0}) >= r]

MiddleValue(xs) ==
    IF Len(xs) % 2 = 1 THEN KthSmallest(xs, (Len(xs) + 1) \div 2)
    ELSE DDiv(DAdd(KthSmallest(xs, Len(xs) \div 2), KthSmallest(xs, Len(xs) \div 2 + 1)),
              DInt(2))

RECURSIVE Total(_)
Total(xs) == IF xs = <<>> THEN DInt(0) ELSE DAdd(Total(Tail(xs)), Head(xs))

Average(xs) == DDiv(Total(xs), DInt(Len(xs)))

\* the statistic the request asks for is the mean (the median is the default)
MeanAsked(t) ==
    RawInput(t, "statistic").t = "str" /\ RawInput(t, "statistic").v = MeanName

\* revenue_ltm * selected_multiple * (100 - pct) / 100, before rounding
DiscountedRevenueMultiple(t) ==
    DDiv(DMul(DMul(AmountInput(t, "revenue_ltm"), threads[t].selected_multiple),
              DSub(DInt(100), DiscountInput(t))),
         DInt(100))

Unrounded(t) ==
    IF IsLastRound(threads[t])
    THEN DMul(threads[t].v.last_post_money, threads[t].c.multiplier)
    ELSE DMul(threads[t].c.gross_value, threads[t].c.discount_multiplier)

\* the digits of the non-negative x below the cent, one per dropped place
BelowCent(x) ==
    LET k == -2 - x.e
        padded == Zeros(k - Len(x.c)) \o x.c
    IN  SubSeq(padded, Len(padded) - k + 1, Len(padded))

\* the whole cents of x
WholeCents(x) ==
    LET k == -2 - x.e
    IN  IF Len(x.c) <= k THEN <<0>> ELSE SubSeq(x.c, 1, Len(x.c) - k)

\* x lies exactly half way between two cent values
HalfCent(x) ==
    /\ x.k = "fin" /\ x.e < -2
    /\ BelowCent(x) = <<5>> \o Zeros(-3 - x.e)

\* C7: in both methodologies the final rounding to 2 decimal places is
\* round-half-up: a product exactly half way between two cent values becomes
\* the upper one.
C7_RoundHalfUp ==
    \A t \in Threads :
        (Succeeded(t) /\ HalfCent(Unrounded(t))) =>
            /\ FairValue(t).e = -2
            /\ NCmp(FairValue(t).c, NAdd(WholeCents(Unrounded(t)), <<1>>)) = 0

\* a fair value that is the lower of the two cent values its product lies
\* half way between
C7_HalfCentRoundedDown ==
    \E t \in Threads :
        /\ Succeeded(t) /\ HalfCent(Unrounded(t))
        /\ NCmp(FairValue(t).c, WholeCents(Unrounded(t))) = 0

\* last_round_date and as_of_date are one date, the index is known and that
\* date is on or after its first observation
SameDate(t) ==
    /\ LookupDate(t, 1) = LookupDate(t, 2)
    /\ KnownIndex(IndexInput(t))
    /\ ObservedBy(IndexInput(t).v, LookupDate(t, 1))

\* the amount is a whole number of cents
InCents(x) == x.k = "fin" /\ (x.e >= -2 \/ BelowCent(x) = Zeros(-2 - x.e))

\* 10^25, below which an amount in cents has at most 27 digits
AmountLimit == DFin(0, <<1>>, 25)

GrossValue(t) == DMul(AmountInput(t, "revenue_ltm"), threads[t].selected_multiple)

\* the discount the request asks for is 0, or it names none
NoDiscount(t) == DiscountInput(t).k = "fin" /\ DIsZero(DiscountInput(t))

C10_ZeroInputZeroValue ==
    \A t \in Threads :
        /\ (LastRoundSucceeded(t) /\ DIsZero(AmountInput(t, "last_post_money_valuation")))
               => DIsZero(FairValue(t))
        /\ (CompsSucceeded(t) /\ DIsZero(AmountInput(t, "revenue_ltm")))
               => DIsZero(FairValue(t))
        /\ (CompsSucceeded(t) /\ DCmp(DiscountInput(t), DInt(100)) = 0)
               => DIsZero(FairValue(t))

\* a success with some revenue wholly discounted
C10_Witness ==
    \E t \in Threads :
        /\ CompsSucceeded(t)
        /\ DCmp(DiscountInput(t), DInt(100)) = 0
        /\ ~DIsZero(AmountInput(t, "revenue_ltm"))

(***************************************************************************)
(* What the specification says of the validation of requests               *)
(***************************************************************************)
IsComps(t) == threads[t].delegate = "ComparableCompaniesMethodology"

\* the methodology has finished parsing its inputs, with or without success
PastValidation(t) == threads[t].delegate # "" /\ threads[t].pc # "validate"

\* the evaluation has ended in a validation error about the field key
RejectedFor(t, key) ==
    /\ Done(t) /\ ~threads[t].outcome.ok
    /\ threads[t].outcome.err.kind = "ValidationError"
    /\ threads[t].outcome.err.field = key

\* x is a number, text or not, finite or infinite
IsNumber(x) ==
    x.t \in {"int", "float", "str"} /\ DParse(PyStr(x)).k \in {"fin", "inf"}

Negative(x) == IsNumber(x) /\ DCmp(DParse(PyStr(x)), DInt(0)) < 0

IsZeroAmount(x) == IsNumber(x) /\ DIsZero(DParse(PyStr(x)))

Above100(x) == IsNumber(x) /\ DCmp(DParse(PyStr(x)), DInt(100)) > 0

\* revenue_ltm is a non-negative number
RevenueWellFormed(t) ==
    IsNumber(RawInput(t, "revenue_ltm")) /\ ~Negative(RawInput(t, "revenue_ltm"))

\* statistic is absent, "median" or "mean"
StatisticWellFormed(t) ==
    \/ RawInput(t, "statistic").t = "absent"
    \/ /\ RawInput(t, "statistic").t = "str"
       /\ RawInput(t, "statistic").v \in {MedianName, MeanName}

\* private_company_discount_pct is absent or a number from 0 to 100
DiscountWellFormed(t) ==
    \/ RawInput(t, "private_company_discount_pct").t = "absent"
    \/ /\ IsNumber(RawInput(t, "private_company_discount_pct"))
       /\ ~Negative(RawInput(t, "private_company_discount_pct"))
       /\ ~Above100(RawInput(t, "private_company_discount_pct"))

\* C11: a comparable_companies request is rejected with a validation error
\* when private_company_discount_pct is above 100 or negative and is not
\* rejected for it when it is a number from 0 to 100; a negative revenue_ltm
\* and a negative last_post_money_valuation are rejected with a validation
\* error, and 0 is not.
C11_RangesValidated ==
    \A t \in Threads :
        /\ (IsComps(t) /\ PastValidation(t)) =>
               /\ Negative(RawInput(t, "revenue_ltm")) => RejectedFor(t, "revenue_ltm")
               /\ IsZeroAmount(RawInput(t, "revenue_ltm")) => ~RejectedFor(t, "revenue_ltm")
               /\ (RevenueWellFormed(t) /\ StatisticWellFormed(t)) =>
                      IF \/ Negative(RawInput(t, "private_company_discount_pct"))
                         \/ Above100(RawInput(t, "private_company_discount_pct"))
                      THEN RejectedFor(t, "private_company_discount_pct")
                      ELSE DiscountWellFormed(t) =>
                               /\ ~RejectedFor(t, "private_company_discount_pct")
                               /\ threads[t].calls = <<>> =>
                                      \/ threads[t].pc = "resolve_peers"
                                      \/ RejectedFor(t, "peer_tickers")
        /\ (IsLastRound(threads[t]) /\ PastValidation(t)) =>
               /\ Negative(RawInput(t, "last_post_money_valuation"))
                      => RejectedFor(t, "last_post_money_valuation")
               /\ IsZeroAmount(RawInput(t, "last_post_money_valuation"))
                      => ~RejectedFor(t, "last_post_money_valuation")

\* a request with a good revenue is rejected for its negative discount
C11_Witness ==
    \E t \in Threads :
        /\ IsComps(t) /\ RevenueWellFormed(t) /\ StatisticWellFormed(t)
        /\ Negative(RawInput(t, "private_company_discount_pct"))
        /\ RejectedFor(t, "private_company_discount_pct")

\* C12: a comparable_companies request whose statistic is present with a
\* value other than the texts "median" and "mean", of whatever type, ends in
\* a validation error.
C12_StatisticValidated ==
    \A t \in Threads :
        (/\ IsComps(t) /\ PastValidation(t)
         /\ RevenueWellFormed(t)
         /\ RawInput(t, "statistic").t # "absent"
         /\ ~StatisticWellFormed(t)) => RejectedFor(t, "statistic")

\* the types require_field is asked for
TypeNames == {"int", "float", "str", "bool", "list", "dict"}

\* a payload that holds one value under the key "field"
OneField(value) == [k \in {"field"} |-> value]

IsValidationError(r) == ~r.ok /\ r.err.kind = "ValidationError"

C14_PeerTickersMustBeList ==
    \A t \in Threads :
        (/\ IsComps(t) /\ threads[t].pc \notin {"validate", "resolve_peers"}
         /\ RevenueWellFormed(t) /\ StatisticWellFormed(t) /\ DiscountWellFormed(t)
         /\ RawInput(t, "peer_tickers").t \notin {"absent", "null", "list"}) =>
            /\ RejectedFor(t, "peer_tickers")
            /\ threads[t].calls = <<>>

\* the fields of a request payload and the type from_dict asks of each
RequestFields == {"company_name", "methodology", "inputs", "as_of_date"}

RequestFieldType(f) == IF f = "inputs" THEN "dict" ELSE "str"

\* the payload's field f is absent, null or of the wrong type, or it is an
\* as_of_date that is no calendar date
Malformed(t, f) ==
    \/ threads[t].payload[f].t # RequestFieldType(f)
    \/ f = "as_of_date" /\ ~FromIsoFormat(threads[t].payload[f].v).ok

\* from_dict has returned or raised
Parsed(t) == threads[t].pc \notin {"idle", "from_dict"}

\* C15: from_dict fails with a validation error naming a malformed field
\* when company_name, methodology, inputs or as_of_date is absent, null or of
\* the wrong type or as_of_date is no valid calendar date; otherwise the
\* request the methodology receives carries the payload's as_of_date.
C15_RequestFieldsValidated ==
    \A t \in Threads :
        Parsed(t) =>
            IF \E f \in RequestFields : Malformed(t, f)
            THEN /\ Done(t) /\ ~threads[t].outcome.ok
                 /\ threads[t].outcome.err.kind = "ValidationError"
                 /\ \E f \in RequestFields :
                        Malformed(t, f) /\ threads[t].outcome.err.field = f
                 /\ threads[t].calls = <<>>
            ELSE IsoFormat(threads[t].request.as_of_date) = threads[t].payload.as_of_date.v

\* C16: every request from_dict produces has a non-empty company_name, and a
\* payload whose company_name is the empty text is rejected with a
\* validation error.
C16_CompanyNameNonEmpty ==
    \A t \in Threads :
        /\ threads[t].pc = "evaluate" => threads[t].request.company_name # <<>>
        /\ (Parsed(t) /\ threads[t].payload.company_name = JStr(<<>>)) =>
               /\ Done(t) /\ ~threads[t].outcome.ok
               /\ threads[t].outcome.err.kind = "ValidationError"

(***************************************************************************)
(* What the specification says of the data-source boundary                 *)
(***************************************************************************)
IsDateText(x) == x.t = "str" /\ FromIsoFormat(x.v).ok

\* every input of a last-round request is well-formed
LastRoundWellFormed(t) ==
    /\ IsLastRound(threads[t])
    /\ IsNumber(RawInput(t, "last_post_money_valuation"))
    /\ ~Negative(RawInput(t, "last_post_money_valuation"))
    /\ IsDateText(RawInput(t, "last_round_date"))
    /\ RawInput(t, "public_index").t \in {"absent", "str"}

\* peer_tickers is absent, null or a list of texts
TickersWellFormed(t) ==
    \/ RawInput(t, "peer_tickers").t \in {"absent", "null"}
    \/ /\ RawInput(t, "peer_tickers").t = "list"
       /\ \A i \in 1..Len(RawInput(t, "peer_tickers").v) :
              RawInput(t, "peer_tickers").v[i].t = "str"

\* every input of a comparable-companies request is well-formed
CompsWellFormed(t) ==
    /\ IsComps(t)
    /\ RevenueWellFormed(t) /\ RawInput(t, "sector").t = "str"
    /\ StatisticWellFormed(t) /\ DiscountWellFormed(t) /\ TickersWellFormed(t)

UnknownIndex(t) == ~KnownIndex(IndexInput(t))

\* the k-th requested date is earlier than every observation of the index
BeforeHistory(t, k) ==
    KnownIndex(IndexInput(t)) /\ ~ObservedBy(IndexInput(t).v, LookupDate(t, k))

\* the catalog holds no company of the request's sector
EmptySector(t) == \A i \in 1..Len(COMPS) : COMPS[i].sector # RawInput(t, "sector").v

\* some requested ticker is no company's, whatever its case
UnresolvedTicker(t) ==
    /\ TickersGiven(t)
    /\ \E i \in 1..Len(RawInput(t, "peer_tickers").v) :
           \A j \in 1..Len(COMPS) :
               StrLower(COMPS[j].ticker) # StrLower(RawInput(t, "peer_tickers").v[i].v)

\* the evaluation produces no result, and ends, if it ends, in a data-source
\* error
OnlyDataSourceError(t) ==
    /\ threads[t].pc # "compute"
    /\ Done(t) => /\ ~threads[t].outcome.ok
                  /\ threads[t].outcome.err.kind = "DataSourceError"

\* C17, as stated: for a request whose inputs are all well-formed, an unknown
\* index name, a sector with no companies, an unresolvable peer ticker, or a
\* last_round_date or as_of_date earlier than every observation of the index
\* each end the evaluation in a data-source error, never in a validation
\* error or a result.
C17_DataSourceBoundary ==
    \A t \in Threads :
        /\ (LastRoundWellFormed(t) /\ PastValidation(t)
                /\ (UnknownIndex(t) \/ BeforeHistory(t, 1) \/ BeforeHistory(t, 2)))
               => OnlyDataSourceError(t)
        /\ (CompsWellFormed(t) /\ PastValidation(t)
                /\ (EmptySector(t) \/ UnresolvedTicker(t)))
               => OnlyDataSourceError(t)

\* C17, amended: as above, the sector with no companies counting only when
\* the request gives no non-empty peer_tickers list.
C17_DataSourceBoundaryOfLookupsMade ==
    \A t \in Threads :
        /\ (LastRoundWellFormed(t) /\ PastValidation(t)
                /\ (UnknownIndex(t) \/ BeforeHistory(t, 1) \/ BeforeHistory(t, 2)))
               => OnlyDataSourceError(t)
        /\ (CompsWellFormed(t) /\ PastValidation(t)
                /\ ((EmptySector(t) /\ ~TickersGiven(t)) \/ UnresolvedTicker(t)))
               => OnlyDataSourceError(t)

\* a well-formed request has ended in the data-source error of its second
\* index lookup: only the as_of_date is before the history
C17_Witness ==
    \E t \in Threads :
        /\ LastRoundWellFormed(t) /\ Done(t)
        /\ ~BeforeHistory(t, 1) /\ BeforeHistory(t, 2)
        /\ threads[t].outcome.err.kind = "DataSourceError"

(***************************************************************************)
(* What the specification says of the comparable-company provider          *)
(***************************************************************************)
\* the caller calls the provider itself, not the engine
DirectCaller(t) == threads[t].pc # "idle" /\ threads[t].payload = None

\* the caller's list_by_tickers call has returned or raised
ListedByTickers(t) ==
    /\ DirectCaller(t) /\ threads[t].pc # "list_companies"
    /\ threads[t].v.lookup = "list_by_tickers"

\* the tickers the caller asked for, as written
Requested(t) ==
    {threads[t].v.argument.v[i].v : i \in 1..Len(threads[t].v.argument.v)}

SameTicker(a, b) == StrLower(a) = StrLower(b)

\* the requested tickers that are no company's in any case
Unresolved(t) ==
    {a \in Requested(t) : \A j \in 1..Len(COMPS) : ~SameTicker(a, COMPS[j].ticker)}

\* C18: list_by_tickers matches tickers whatever their case and returns
\* exactly the catalog's companies whose ticker is among the requested ones;
\* when some requested tickers are no company's it fails with a data-source
\* error that names every one of them.
C18_ListByTickers ==
    \A t \in Threads :
        ListedByTickers(t) =>
            IF Unresolved(t) = {}
            THEN /\ threads[t].peers
                        = SelectSeq(COMPS, LAMBDA c :
                              \E a \in Requested(t) : SameTicker(a, c.ticker))
                 /\ threads[t].pc = "aggregate_companies" \/ Len(threads[t].calls) = 2
            ELSE /\ Done(t) /\ ~threads[t].outcome.ok
                 /\ threads[t].outcome.err.kind = "DataSourceError"
                 /\ threads[t].calls = <<"list_by_tickers">>
                 /\ \A a \in Unresolved(t) :
                        \E k \in 1..Len(threads[t].outcome.err.args) :
                            SameTicker(threads[t].outcome.err.args[k], a)

\* a lookup of one catalog ticker and three unknown ones has failed
C18_Witness ==
    \E t \in Threads :
        /\ ListedByTickers(t) /\ Done(t)
        /\ Cardinality(Unresolved(t)) = 3
        /\ Requested(t) # Unresolved(t)
        /\ Len(threads[t].outcome.err.args) = 3

\* C19: aggregate_multiple called with a statistic other than "median" and
\* "mean" fails with a validation error, not with a data-source error.
C19_UnsupportedStatisticIsCallerError ==
    \A t \in Threads :
        (/\ DirectCaller(t) /\ Done(t)
         /\ Len(threads[t].calls) = 2
         /\ threads[t].v.statistic \notin {MedianName, MeanName}) =>
            /\ ~threads[t].outcome.ok
            /\ threads[t].outcome.err.kind = "ValidationError"

(***************************************************************************)
(* The second documented scenario                                          *)
(***************************************************************************)
\* the request of scenario B: enterprise_software, revenue 10000000, median,
\* discount 20, no peer_tickers
IsScenarioB(t) ==
    /\ IsComps(t)
    /\ RawInput(t, "sector") = JStr(ENTERPRISE_SOFTWARE)
    /\ DCmp(AmountInput(t, "revenue_ltm"), DParse(Txt(<<"1", "0", "0", "0", "0", "0", "0", "0">>))) = 0
    /\ RawInput(t, "statistic") = JStr(MedianName)
    /\ DCmp(AmountInput(t, "private_company_discount_pct"), DInt(20)) = 0
    /\ RawInput(t, "peer_tickers").t = "absent"

DayNumber(dt) ==
    LET a == IF dt.m <= 2 THEN 1 ELSE 0
        y == dt.y + 4800 - a
        m == dt.m + 12 * a - 3
    IN  dt.d + (153 * m + 2) \div 5 + 365 * y + y \div 4 - y \div 100 + y \div 400 - 32045

\* calendar days from the request's last_round_date to its as_of_date
DaysSinceRound(t) == DayNumber(LookupDate(t, 2)) - DayNumber(LookupDate(t, 1))

Confidence(t) == threads[t].outcome.val.confidence_indicators

\* C25: in every successful last-round result days_since_last_round is the
\* calendar days from last_round_date to as_of_date, and staleness_risk is
\* HIGH exactly above 365 days, MEDIUM exactly above 180 and up to 365, and
\* LOW otherwise.
C25_StalenessTiers ==
    \A t \in Threads :
        LastRoundSucceeded(t) =>
            /\ Confidence(t).days_since_last_round = DaysSinceRound(t)
            /\ Confidence(t).staleness_risk = "HIGH" <=> DaysSinceRound(t) > 365
            /\ Confidence(t).staleness_risk = "MEDIUM"
                   <=> (DaysSinceRound(t) > 180 /\ DaysSinceRound(t) <= 365)
            /\ Confidence(t).staleness_risk = "LOW" <=> DaysSinceRound(t) <= 180

\* a round of exactly 365 days ago is of medium staleness
C25_Witness ==
    \E t \in Threads :
        /\ LastRoundSucceeded(t)
        /\ DaysSinceRound(t) = 365
        /\ Confidence(t).staleness_risk = "MEDIUM"

\* C26: in every successful comparable-companies result peer_count is the
\* number of resolved peer companies and at least 1, and peer_set_quality is
\* LOW exactly below 3 peers, MEDIUM exactly for 3 or 4, HIGH from 5 on.
C26_PeerSetQualityTiers ==
    \A t \in Threads :
        CompsSucceeded(t) =>
            /\ Confidence(t).peer_count = Len(PeerGroup(t))
            /\ Confidence(t).peer_count = Len(threads[t].peers)
            /\ Confidence(t).peer_count >= 1
            /\ Confidence(t).peer_set_quality = "LOW" <=> Len(PeerGroup(t)) < 3
            /\ Confidence(t).peer_set_quality = "MEDIUM" <=> Len(PeerGroup(t)) \in {3, 4}
            /\ Confidence(t).peer_set_quality = "HIGH" <=> Len(PeerGroup(t)) >= 5

\* five peers named by ticker make a peer set of high quality
C26_Witness ==
    \E t \in Threads :
        /\ CompsSucceeded(t)
        /\ Len(PeerGroup(t)) = 5
        /\ Confidence(t).peer_set_quality = "HIGH"

(***************************************************************************)
(* What the specification says of the classification of failures           *)
(***************************************************************************)
\* C27: evaluate_from_dict of a mapping ends in a result, a validation error
\* or a data-source error, whatever the types and values of its fields and
\* inputs.
C27_ThreeOutcomes ==
    \A t \in Threads :
        Done(t) =>
            \/ threads[t].outcome.ok
            \/ threads[t].outcome.err.kind \in {"ValidationError", "DataSourceError"}

\* the methodology named by the payload, when it is a registered one
NamedMethodology(t) ==
    IF threads[t].payload.methodology = JStr(LastRoundName) THEN "last_round"
    ELSE IF threads[t].payload.methodology = JStr(CompsName) THEN "comps"
    ELSE "none"

\* some part of the request is malformed: a payload field, the methodology
\* name, or an input of the methodology
InvalidRequest(t) ==
    \/ \E f \in RequestFields : Malformed(t, f)
    \/ NamedMethodology(t) = "none"
    \/ /\ NamedMethodology(t) = "last_round"
       /\ \/ ~IsNumber(RawInput(t, "last_post_money_valuation"))
          \/ Negative(RawInput(t, "last_post_money_valuation"))
          \/ ~IsDateText(RawInput(t, "last_round_date"))
    \/ /\ NamedMethodology(t) = "comps"
       /\ \/ ~IsNumber(RawInput(t, "revenue_ltm"))
          \/ Negative(RawInput(t, "revenue_ltm"))
          \/ RawInput(t, "sector").t # "str"
          \/ ~StatisticWellFormed(t)
          \/ ~DiscountWellFormed(t)
          \/ ~TickersWellFormed(t)

\* C28: validation precedes data lookup: an evaluation that ends in a
\* validation error has made no provider call, and a request with an invalid
\* part ends in a validation error, never in a data-source error, whatever
\* data it names.
C28_ValidationBeforeLookup ==
    \A t \in Threads :
        /\ (Done(t) /\ ~threads[t].outcome.ok
                /\ threads[t].outcome.err.kind = "ValidationError")
               => threads[t].calls = <<>>
        /\ (Parsed(t) /\ InvalidRequest(t)) =>
               /\ threads[t].calls = <<>>
               /\ Done(t) => /\ ~threads[t].outcome.ok
                             /\ threads[t].outcome.err.kind = "ValidationError"

(***************************************************************************)
(* What get_level's answers imply                                          *)
(***************************************************************************)
\* C29: whenever get_level(index, d) succeeds the date r of its observation
\* is on or before d and get_level(index, r) returns the same observation;
\* index_data_freshness_gap_days is never negative in a successful
\* last-round result; and when both lookups resolve to the same observation
\* the index ratio is exactly 1.
C29_ResolvedObservation ==
    \A t \in Threads :
        /\ \A k \in {1, 2} :
               (Looked(t, k) /\ ~LookupRaised(t, k)) =>
                   /\ DateLE(LookupPoint(t, k).as_of_date, LookupDate(t, k))
                   /\ get_level(index_levels, IndexInput(t), LookupPoint(t, k).as_of_date)
                          = Ok(LookupPoint(t, k))
        /\ LastRoundSucceeded(t) =>
               /\ Confidence(t).index_data_freshness_gap_days >= 0
               /\ Confidence(t).index_data_freshness_gap_days
                      = DayNumber(LookupDate(t, 2)) - DayNumber(threads[t].as_of_level.as_of_date)
               /\ threads[t].last_round_level = threads[t].as_of_level =>
                      /\ threads[t].c.pct_change = DInt(0)
                      /\ threads[t].c.multiplier = DInt(1)

\* two different requested dates have resolved to one observation, and the
\* as-of date lies after it
C29_Witness ==
    \E t \in Threads :
        /\ LastRoundSucceeded(t)
        /\ LookupDate(t, 1) # LookupDate(t, 2)
        /\ threads[t].last_round_level = threads[t].as_of_level
        /\ Confidence(t).index_data_freshness_gap_days > 0


(***************************************************************************)
(* Citations                                                               *)
(***************************************************************************)
\* the first citation of the caller's result, as serialized
FirstCitation(t) == CitationToDict(threads[t].outcome.val.citations[1]).v

\* index@date=level of the observation closest before the k-th lookup's date
ExpectedPoint(t, k) ==
    LET o == ClosestPrior(IndexInput(t).v, LookupDate(t, k))
    IN  JStr(IndexInput(t).v \o <<64>> \o o.key \o <<61>> \o DToStr(o.level))

\* C21: for both methodologies, the first citation of every successful
\* result serializes with a dataset_version and a non-empty
\* resolved_data_points list; for a last-round result the list is the two
\* index@date=level texts of the resolved lookups, the last-round lookup first.
C21_CitationTrace ==
    \A t \in Threads :
        Succeeded(t) =>
            /\ "dataset_version" \in DOMAIN FirstCitation(t)
            /\ "resolved_data_points" \in DOMAIN FirstCitation(t)
            /\ FirstCitation(t).resolved_data_points.t = "list"
            /\ FirstCitation(t).resolved_data_points.v # <<>>
            /\ LastRoundSucceeded(t) =>
                   FirstCitation(t).resolved_data_points.v
                       = <<ExpectedPoint(t, 1), ExpectedPoint(t, 2)>>

\* what C21 says of last-round results alone
C21_LastRoundCitationTrace ==
    \A t \in Threads :
        LastRoundSucceeded(t) =>
            /\ "dataset_version" \in DOMAIN FirstCitation(t)
            /\ FirstCitation(t).dataset_version.v # <<>>
            /\ "resolved_data_points" \in DOMAIN FirstCitation(t)
            /\ FirstCitation(t).resolved_data_points
                   = JList(<<ExpectedPoint(t, 1), ExpectedPoint(t, 2)>>)

\* the citation of a comparable-companies result has neither field
C21_CompsCitationIsStatic ==
    \A t \in Threads :
        CompsSucceeded(t) => DOMAIN FirstCitation(t) = {"label", "detail"}

(***************************************************************************)
(* What the specification says of the HTTP adapters and the store          *)
(***************************************************************************)
\* the handler of the request in hand has answered
Answered == http.pc = "replied"

\* the request in hand is a POST to a valuation route of its adapter
ValuationPost ==
    /\ http.method = "POST"
    /\ http.adapter = "server" \/ http.route = "/api/value"

\* the response body is {"error": message}
IsErrorReply == http.reply.t = "dict" /\ "error" \in DOMAIN http.reply.v

\* what evaluating the posted body gives on an engine nobody else has used
PostedEvaluation == EvaluateBody(Registry, INDEX_LEVELS, COMPS, http.body)

\* the response body is the serialized result of the posted body, under
\* some request_id and timestamp
IsSerializedResult ==
    \E id \in UUIDs, now \in 1..Len(GeneratedAtValues) :
        http.reply = JsonDocument(ToDict(PostedEvaluation.val, UuidText(id),
                                         GeneratedAtValues[now]))

\* the status and body C22 gives the answered valuation POST in hand
StatusAsSpecified ==
    IF http.body.kind \in {"text", "bytes"}
    THEN http.status = 400 /\ IsErrorReply
    ELSE IF PostedEvaluation.ok
    THEN \/ http.status = 200 /\ IsSerializedResult
         \/ /\ http.status = 500 /\ IsErrorReply
            /\ http.reply.v.error.kind \in {"IntegrityError", "ValueError"}
    ELSE /\ http.status = IF PostedEvaluation.err.kind
                                 \in {"ValidationError", "DataSourceError"}
                          THEN 400 ELSE 500
         /\ http.reply = ErrorBody(PostedEvaluation.err)

\* C22: the HTTP adapters answer a valuation POST with status 400 and a body
\* {error: message} whenever the evaluation fails with a validation error or
\* a data-source error or the body is not valid JSON, with status 500 and
\* {error: message} for any other failure (of the evaluation, of the save or
\* of writing the response), and with status 200 and the serialized result
\* otherwise.
C22_StatusMapping == Answered /\ ValuationPost => StatusAsSpecified

\* C22 of every body but the one that is no UTF-8 posted to web.py
C22_StatusMappingOfDecodedBodies ==
    /\ Answered /\ ValuationPost
    /\ ~(http.adapter = "web" /\ http.body.kind = "bytes")
    => StatusAsSpecified

\* web.py answers a body that is no UTF-8 with 500
C22_WebUndecodableBody ==
    /\ Answered /\ ValuationPost
    /\ http.adapter = "web" /\ http.body.kind = "bytes"
    => http.status = 500 /\ http.reply.v.error.kind = "UnicodeDecodeError"

\* the result_dict of the posted body under the id-th UUID and the now-th
\* timestamp
PostedResult(id, now) ==
    ToDict(PostedEvaluation.val, UuidText(id), GeneratedAtValues[now])

\* the handler of the request in hand answers in this step
Answers == http.pc = "received" /\ http'.pc = "replied"

\* a run that is stored stays stored, with the same payload
RunsKept ==
    \A id \in RunIds :
        get_run(runs, id) # JNull => get_run(runs', id) = get_run(runs, id)

\* a step that changes the table is save(r) of the posted body's result r
\* succeeding: it returns r's request_id, the id was not stored before, and
\* get_run of that id now returns r
SavedRetrievable ==
    runs' # runs =>
        \E id \in UUIDs, now \in 1..Len(GeneratedAtValues) :
            /\ PostedEvaluation.ok
            /\ save(runs, PostedResult(id, now)).ok
            /\ save(runs, PostedResult(id, now)).val.returned = JStr(UuidText(id))
            /\ runs' = save(runs, PostedResult(id, now)).val.rows
            /\ get_run(runs, UuidText(id)) = JNull
            /\ get_run(runs', UuidText(id)) = PostedResult(id, now)

\* GET /api/runs/{id} is answered 404 exactly when get_run(id) is None
UnknownRunIs404 ==
    Answers /\ http.route = "/api/runs/{run_id}" =>
        /\ get_run(runs, http.run_id) = JNull <=> http'.status = 404
        /\ http'.status = 200 => http'.reply = get_run(runs, http.run_id)

\* a 200 answer to POST /api/value carries a request_id whose run is the
\* answer's body
RepliedRunIsStored ==
    Answers /\ http.method = "POST" /\ http.route = "/api/value" /\ http'.status = 200
    => get_run(runs', http'.reply.v.audit_metadata.v.request_id.v) = http'.reply

\* C23: once save(r) has succeeded it has returned r's request_id, and in
\* every later state get_run of that id returns a payload equal to r;
\* get_run of an id that was never saved returns None, which GET
\* /api/runs/{id} answers with 404; and a POST /api/value answered with 200
\* has saved the envelope before replying, so the request_id in its
\* response is retrievable afterwards.
C23_SavedRunsRetrievable ==
    [][RunsKept /\ SavedRetrievable /\ UnknownRunIs404 /\ RepliedRunIsStored]_vars

\* a stored run is fetched over HTTP after a later run was saved
C23_Witness ==
    /\ Answered /\ http.route = "/api/runs/{run_id}" /\ http.status = 200
    /\ Len(runs) = 2
    /\ runs[1].request_id = JStr(http.run_id)
    /\ http.reply = get_run(runs, http.run_id)

\* list_runs has returned to the caller in hand, directly or under GET
\* /api/runs
Listed ==
    /\ Answered
    /\ http.method = "list_runs" \/ (http.route = "/api/runs" /\ http.status = 200)

\* the limit of that call
ListLimit == IF http.method = "list_runs" THEN http.limit ELSE DefaultLimit

SummaryColumns ==
    {"request_id", "company_name", "methodology", "as_of_date", "fair_value",
     "generated_at_utc"}

\* the i-th summary returned is that of the i-th latest saved run, without
\* its payload
NewestFirst(count) ==
    /\ http.reply.t = "list"
    /\ Len(http.reply.v) = count
    /\ \A i \in 1..count :
           /\ DOMAIN http.reply.v[i].v = SummaryColumns
           /\ \A col \in SummaryColumns :
                  http.reply.v[i].v[col] = runs[Len(runs) + 1 - i][col]

\* C24 as stated: after any sequence of successful saves, list_runs(limit)
\* returns min(limit, number of saved runs) summaries ordered from the most
\* recently saved to the oldest, each without the payload field, and the
\* empty list on an empty store.
C24_ListRunsMinOfLimit ==
    Listed => /\ Min(ListLimit, Len(runs)) >= 0
              /\ NewestFirst(Min(ListLimit, Len(runs)))

\* C24, amended: after any sequence of successful saves, list_runs(limit)
\* returns min(limit, number of saved runs) summaries when limit is not
\* negative and a summary of every saved run when limit is negative,
\* ordered from the most recently saved to the oldest, each without the
\* payload field; on an empty store it returns the empty list.
C24_ListRuns ==
    Listed => /\ NewestFirst(IF ListLimit < 0 THEN Len(runs)
                             ELSE Min(ListLimit, Len(runs)))
              /\ runs = <<>> => http.reply = JList(<<>>)

\* two runs are stored and list_runs(1) has returned the later one alone
C24_Witness ==
    /\ Listed /\ http.method = "list_runs" /\ http.limit = 1
    /\ Len(runs) = 2
    /\ Len(http.reply.v) = 1
    /\ http.reply.v[1].v.request_id = runs[2].request_id

\* the table changes only in the step that answers a POST /api/value with
\* 200, which appends one run
OnlySuccessfulApiValueSaves ==
    runs' # runs =>
        /\ Answers /\ http.method = "POST" /\ http.route = "/api/value"
        /\ http'.status = 200
        /\ Len(runs') = Len(runs) + 1
        /\ SubSeq(runs', 1, Len(runs)) = runs

\* a request answered with 400 or 500, any POST /value and every GET leave
\* the table as it was
OthersLeaveStore ==
    /\ Answers
    /\ \/ http'.status \in {400, 500}
       \/ http.route = "/value"
       \/ http.method = "GET"
    => runs' = runs

\* C30: the set of stored runs changes only through a successful POST
\* /api/value, which adds exactly one run: a request that ends in a 400 or
\* 500 response, any POST /value and every GET leave the store unchanged,
\* and a save that fails because the request_id already exists leaves the
\* previously stored run for that id unchanged.
C30_StoreFrame == [][OnlySuccessfulApiValueSaves /\ OthersLeaveStore /\ RunsKept]_vars

\* the result of the posted body holds a float that is no finite number
PostedNonFinite ==
    /\ http.method = "POST" /\ http.body.kind = "object" /\ PostedEvaluation.ok
    /\ HasNonFinite(PostedResult(1, 1))

\* C30 of every request but the POST /api/value that server.py cannot answer
C30_StoreFrameOfRenderedResults ==
    [][~(http.adapter = "server" /\ http.route = "/api/value" /\ PostedNonFinite)
       => OnlySuccessfulApiValueSaves /\ OthersLeaveStore /\ RunsKept]_vars

\* server.py has saved a run and answered 500
C30_SavedAndAnswered500 ==
    /\ Answered /\ http.adapter = "server" /\ http.route = "/api/value"
    /\ http.status = 500 /\ http.reply.v.error.kind = "ValueError"
    /\ \E id \in UUIDs, now \in 1..Len(GeneratedAtValues) :
           get_run(runs, UuidText(id)) = PostedResult(id, now)

====
